---------------------------- MODULE Spec2Model ----------------------------
(***************************************************************************)
(* Model of the command-replacer hook: the Command Translation Engine of   *)
(* packages/command-replacer (replacements.rs, config.rs, main.rs).        *)
(*                                                                         *)
(* A Rust String is modelled as a sequence of one-character strings, so    *)
(* that tokenization, joining, prefix tests and pattern matching are       *)
(* computed character by character, as the code computes them.            *)
(***************************************************************************)
EXTENDS Integers, Sequences, FiniteSets, TLC

(***************************************************************************)
(* Characters and string helpers (std::str methods used by the engine)     *)
(***************************************************************************)
SP == " "
SQ == "'"
DQ == "\""
BS == "\\"
NL == "\n"
TAB == "\t"
\* the backquote character, which a TLA+ string literal cannot hold
BQ == "backquote"

\* str::starts_with(prefix)
StartsWith(s, p) ==
    /\ Len(s) >= Len(p)
    /\ SubSeq(s, 1, Len(p)) = p

\* arg.starts_with('-')
IsFlag(arg) == StartsWith(arg, <<"-">>)

\* str::contains(sub)
Contains(s, sub) ==
    \E i \in 1..(Len(s) - Len(sub) + 1) : SubSeq(s, i, i + Len(sub) - 1) = sub

\* str::trim_matches(c): every leading and every trailing c is removed
TrimMatches(s, c) ==
    LET keep == {i \in 1..Len(s) : s[i] # c}
    IN  IF keep = {} THEN <<>>
        ELSE LET lo == CHOOSE i \in keep : \A j \in keep : i <= j
                 hi == CHOOSE i \in keep : \A j \in keep : i >= j
             IN  SubSeq(s, lo, hi)

\* [String]::join(sep)
RECURSIVE Join(_, _)
Join(toks, sep) ==
    IF toks = <<>> THEN <<>>
    ELSE IF Len(toks) = 1 THEN toks[1]
    ELSE toks[1] \o sep \o Join(Tail(toks), sep)

\* format!("{} {}", config.replacement, new_args.join(" "))
FormatCommand(replacement, new_args) ==
    replacement \o <<SP>> \o Join(new_args, <<SP>>)

(***************************************************************************)
(* The string literals of the source and of the commands evaluated, each   *)
(* with its characters.  Str("grep") is the Rust string "grep".            *)
(***************************************************************************)
\* BEGIN string table
Chars ==
    "grep" :> <<"g", "r", "e", "p">> @@
    "find" :> <<"f", "i", "n", "d">> @@
    "cat" :> <<"c", "a", "t">> @@
    "ls" :> <<"l", "s">> @@
    "sed" :> <<"s", "e", "d">> @@
    "ps" :> <<"p", "s">> @@
    "rg" :> <<"r", "g">> @@
    "fd" :> <<"f", "d">> @@
    "bat" :> <<"b", "a", "t">> @@
    "eza" :> <<"e", "z", "a">> @@
    "exa" :> <<"e", "x", "a">> @@
    "sd" :> <<"s", "d">> @@
    "procs" :> <<"p", "r", "o", "c", "s">> @@
    "foo" :> <<"f", "o", "o">> @@
    "--color" :> <<"-", "-", "c", "o", "l", "o", "r">> @@
    "-n" :> <<"-", "n">> @@
    "--line-number" :> <<"-", "-", "l", "i", "n", "e", "-", "n", "u", "m", "b", "e", "r">> @@
    "-i" :> <<"-", "i">> @@
    "--ignore-case" :> <<"-", "-", "i", "g", "n", "o", "r", "e", "-", "c", "a", "s", "e">> @@
    "-v" :> <<"-", "v">> @@
    "--invert-match" :> <<"-", "-", "i", "n", "v", "e", "r", "t", "-", "m", "a", "t", "c", "h">> @@
    "-r" :> <<"-", "r">> @@
    "--recursive" :> <<"-", "-", "r", "e", "c", "u", "r", "s", "i", "v", "e">> @@
    "-A" :> <<"-", "A">> @@
    "-B" :> <<"-", "B">> @@
    "-C" :> <<"-", "C">> @@
    "-t" :> <<"-", "t">> @@
    "--type" :> <<"-", "-", "t", "y", "p", "e">> @@
    "-e" :> <<"-", "e">> @@
    "--extension" :> <<"-", "-", "e", "x", "t", "e", "n", "s", "i", "o", "n">> @@
    "-H" :> <<"-", "H">> @@
    "--hidden" :> <<"-", "-", "h", "i", "d", "d", "e", "n">> @@
    "-I" :> <<"-", "I">> @@
    "--no-ignore" :> <<"-", "-", "n", "o", "-", "i", "g", "n", "o", "r", "e">> @@
    "-name" :> <<"-", "n", "a", "m", "e">> @@
    "-iname" :> <<"-", "i", "n", "a", "m", "e">> @@
    "--number" :> <<"-", "-", "n", "u", "m", "b", "e", "r">> @@
    "-l" :> <<"-", "l">> @@
    "-a" :> <<"-", "a">> @@
    "--all" :> <<"-", "-", "a", "l", "l">> @@
    "-h" :> <<"-", "h">> @@
    "--human-readable" :> <<"-", "-", "h", "u", "m", "a", "n", "-", "r", "e", "a", "d", "a", "b", "l", "e">> @@
    "--time" :> <<"-", "-", "t", "i", "m", "e">> @@
    "--reverse" :> <<"-", "-", "r", "e", "v", "e", "r", "s", "e">> @@
    "-u" :> <<"-", "u">> @@
    "-x" :> <<"-", "x">> @@
    "-f" :> <<"-", "f">> @@
    "-E" :> <<"-", "E">> @@
    "--extended-regexp" :> <<"-", "-", "e", "x", "t", "e", "n", "d", "e", "d", "-", "r", "e", "g", "e", "x", "p">> @@
    "-F" :> <<"-", "F">> @@
    "--fixed-strings" :> <<"-", "-", "f", "i", "x", "e", "d", "-", "s", "t", "r", "i", "n", "g", "s">> @@
    "-P" :> <<"-", "P">> @@
    "--perl-regexp" :> <<"-", "-", "p", "e", "r", "l", "-", "r", "e", "g", "e", "x", "p">> @@
    "-o" :> <<"-", "o">> @@
    "--only-matching" :> <<"-", "-", "o", "n", "l", "y", "-", "m", "a", "t", "c", "h", "i", "n", "g">> @@
    "-c" :> <<"-", "c">> @@
    "--count" :> <<"-", "-", "c", "o", "u", "n", "t">> @@
    "--files-with-matches" :> <<"-", "-", "f", "i", "l", "e", "s", "-", "w", "i", "t", "h", "-", "m", "a", "t", "c", "h", "e", "s">> @@
    "-L" :> <<"-", "L">> @@
    "--files-without-match" :> <<"-", "-", "f", "i", "l", "e", "s", "-", "w", "i", "t", "h", "o", "u", "t", "-", "m", "a", "t", "c", "h">> @@
    "--after-context" :> <<"-", "-", "a", "f", "t", "e", "r", "-", "c", "o", "n", "t", "e", "x", "t">> @@
    "--before-context" :> <<"-", "-", "b", "e", "f", "o", "r", "e", "-", "c", "o", "n", "t", "e", "x", "t">> @@
    "--context" :> <<"-", "-", "c", "o", "n", "t", "e", "x", "t">> @@
    "--include=" :> <<"-", "-", "i", "n", "c", "l", "u", "d", "e", "=">> @@
    "--exclude=" :> <<"-", "-", "e", "x", "c", "l", "u", "d", "e", "=">> @@
    "--include" :> <<"-", "-", "i", "n", "c", "l", "u", "d", "e">> @@
    "--exclude" :> <<"-", "-", "e", "x", "c", "l", "u", "d", "e">> @@
    "--glob" :> <<"-", "-", "g", "l", "o", "b">> @@
    "!" :> <<"!">> @@
    "--text" :> <<"-", "-", "t", "e", "x", "t">> @@
    "--null-data" :> <<"-", "-", "n", "u", "l", "l", "-", "d", "a", "t", "a">> @@
    "-z" :> <<"-", "z">> @@
    "--unrestricted" :> <<"-", "-", "u", "n", "r", "e", "s", "t", "r", "i", "c", "t", "e", "d">> @@
    "--line-buffered" :> <<"-", "-", "l", "i", "n", "e", "-", "b", "u", "f", "f", "e", "r", "e", "d">> @@
    "--mmap" :> <<"-", "-", "m", "m", "a", "p">> @@
    "-U" :> <<"-", "U">> @@
    "--binary" :> <<"-", "-", "b", "i", "n", "a", "r", "y">> @@
    "-Z" :> <<"-", "Z">> @@
    "--null" :> <<"-", "-", "n", "u", "l", "l">> @@
    "\\<" :> <<"\\", "<">> @@
    "\\>" :> <<"\\", ">">> @@
    "\\b" :> <<"\\", "b">> @@
    "(?" :> <<"(", "?">> @@
    "\\x" :> <<"\\", "x">> @@
    "\\u" :> <<"\\", "u">> @@
    "-path" :> <<"-", "p", "a", "t", "h">> @@
    "-ipath" :> <<"-", "i", "p", "a", "t", "h">> @@
    "-type" :> <<"-", "t", "y", "p", "e">> @@
    "f" :> <<"f">> @@
    "d" :> <<"d">> @@
    "file" :> <<"f", "i", "l", "e">> @@
    "directory" :> <<"d", "i", "r", "e", "c", "t", "o", "r", "y">> @@
    "symlink" :> <<"s", "y", "m", "l", "i", "n", "k">> @@
    "-size" :> <<"-", "s", "i", "z", "e">> @@
    "-mtime" :> <<"-", "m", "t", "i", "m", "e">> @@
    "-ctime" :> <<"-", "c", "t", "i", "m", "e">> @@
    "-atime" :> <<"-", "a", "t", "i", "m", "e">> @@
    "-exec" :> <<"-", "e", "x", "e", "c">> @@
    "-execdir" :> <<"-", "e", "x", "e", "c", "d", "i", "r">> @@
    "-ok" :> <<"-", "o", "k">> @@
    "-okdir" :> <<"-", "o", "k", "d", "i", "r">> @@
    "-delete" :> <<"-", "d", "e", "l", "e", "t", "e">> @@
    "-print0" :> <<"-", "p", "r", "i", "n", "t", "0">> @@
    "-maxdepth" :> <<"-", "m", "a", "x", "d", "e", "p", "t", "h">> @@
    "-mindepth" :> <<"-", "m", "i", "n", "d", "e", "p", "t", "h">> @@
    "--max-depth" :> <<"-", "-", "m", "a", "x", "-", "d", "e", "p", "t", "h">> @@
    "--min-depth" :> <<"-", "-", "m", "i", "n", "-", "d", "e", "p", "t", "h">> @@
    "l" :> <<"l">> @@
    "-perm" :> <<"-", "p", "e", "r", "m">> @@
    "-readable" :> <<"-", "r", "e", "a", "d", "a", "b", "l", "e">> @@
    "-writable" :> <<"-", "w", "r", "i", "t", "a", "b", "l", "e">> @@
    "-executable" :> <<"-", "e", "x", "e", "c", "u", "t", "a", "b", "l", "e">> @@
    "-user" :> <<"-", "u", "s", "e", "r">> @@
    "-group" :> <<"-", "g", "r", "o", "u", "p">> @@
    "-uid" :> <<"-", "u", "i", "d">> @@
    "-gid" :> <<"-", "g", "i", "d">> @@
    "-and" :> <<"-", "a", "n", "d">> @@
    "-or" :> <<"-", "o", "r">> @@
    "-not" :> <<"-", "n", "o", "t">> @@
    "(" :> <<"(">> @@
    ")" :> <<")">> @@
    "-daystart" :> <<"-", "d", "a", "y", "s", "t", "a", "r", "t">> @@
    "-follow" :> <<"-", "f", "o", "l", "l", "o", "w">> @@
    "-regextype" :> <<"-", "r", "e", "g", "e", "x", "t", "y", "p", "e">> @@
    "-warn" :> <<"-", "w", "a", "r", "n">> @@
    "-nowarn" :> <<"-", "n", "o", "w", "a", "r", "n">> @@
    "-mount" :> <<"-", "m", "o", "u", "n", "t">> @@
    "-xdev" :> <<"-", "x", "d", "e", "v">> @@
    "-prune" :> <<"-", "p", "r", "u", "n", "e">> @@
    "-quit" :> <<"-", "q", "u", "i", "t">> @@
    "-printf" :> <<"-", "p", "r", "i", "n", "t", "f">> @@
    "-fprintf" :> <<"-", "f", "p", "r", "i", "n", "t", "f">> @@
    "-fprint" :> <<"-", "f", "p", "r", "i", "n", "t">> @@
    "-fls" :> <<"-", "f", "l", "s">> @@
    "-ls" :> <<"-", "l", "s">> @@
    "-fprint0" :> <<"-", "f", "p", "r", "i", "n", "t", "0">> @@
    "-regex" :> <<"-", "r", "e", "g", "e", "x">> @@
    "-iregex" :> <<"-", "i", "r", "e", "g", "e", "x">> @@
    "-newer" :> <<"-", "n", "e", "w", "e", "r">> @@
    "-cnewer" :> <<"-", "c", "n", "e", "w", "e", "r">> @@
    "-anewer" :> <<"-", "a", "n", "e", "w", "e", "r">> @@
    "-samefile" :> <<"-", "s", "a", "m", "e", "f", "i", "l", "e">> @@
    "-inum" :> <<"-", "i", "n", "u", "m">> @@
    "-links" :> <<"-", "l", "i", "n", "k", "s">> @@
    "--style=plain" :> <<"-", "-", "s", "t", "y", "l", "e", "=", "p", "l", "a", "i", "n">> @@
    "." :> <<".">> @@
    "pat" :> <<"p", "a", "t">> @@
    "x" :> <<"x">> @@
    "rm" :> <<"r", "m">> @@
    "+1" :> <<"+", "1">> @@
    "1" :> <<"1">> @@
    "s/a/b/" :> <<"s", "/", "a", "/", "b", "/">> @@
    "*.rs" :> <<"*", ".", "r", "s">> @@
    "'*.rs'" :> <<"'", "*", ".", "r", "s", "'">> @@
    "\"it's\"" :> <<"\"", "i", "t", "'", "s", "\"">> @@
    "'pat" :> <<"'", "p", "a", "t">> @@
    "it's" :> <<"i", "t", "'", "s">> @@
    "" :> <<>> @@
    " " :> <<" ">> @@
    "  " :> <<" ", " ">> @@
    "-w" :> <<"-", "w">> @@
    "--word-regexp" :> <<"-", "-", "w", "o", "r", "d", "-", "r", "e", "g", "e", "x", "p">> @@
    "3" :> <<"3">> @@
    "'\\bx'" :> <<"'", "\\", "b", "x", "'">> @@
    "--include=\\'*.rs\\'" :> <<"-", "-", "i", "n", "c", "l", "u", "d", "e", "=", "\\", "'", "*", ".", "r", "s", "\\", "'">> @@
    "--exclude=\\\"*.tmp\\\"" :> <<"-", "-", "e", "x", "c", "l", "u", "d", "e", "=", "\\", "\"", "*", ".", "t", "m", "p", "\\", "\"">> @@
    "\\'*.rs\\'" :> <<"\\", "'", "*", ".", "r", "s", "\\", "'">> @@
    "\\\"*.tmp\\\"" :> <<"\\", "\"", "*", ".", "t", "m", "p", "\\", "\"">> @@
    "*.tmp" :> <<"*", ".", "t", "m", "p">> @@
    "!*.tmp" :> <<"!", "*", ".", "t", "m", "p">> @@
    "--include=*.rs" :> <<"-", "-", "i", "n", "c", "l", "u", "d", "e", "=", "*", ".", "r", "s">> @@
    "a" :> <<"a">> @@
    "b" :> <<"b">> @@
    "'*.md'" :> <<"'", "*", ".", "m", "d", "'">> @@
    "*.md" :> <<"*", ".", "m", "d">> @@
    "-s" :> <<"-", "s">> @@
    "s/a/b/g" :> <<"s", "/", "a", "/", "b", "/", "g">> @@
    "s/a//" :> <<"s", "/", "a", "/", "/">> @@
    "s//b/" :> <<"s", "/", "/", "b", "/">> @@
    "s|a|b|" :> <<"s", "|", "a", "|", "b", "|">> @@
    "s/a/b" :> <<"s", "/", "a", "/", "b">> @@
    "s/a/b/x" :> <<"s", "/", "a", "/", "b", "/", "x">> @@
    "s/a/b/;s/c/d/" :> <<"s", "/", "a", "/", "b", "/", ";", "s", "/", "c", "/", "d", "/">> @@
    "y/a/b/" :> <<"y", "/", "a", "/", "b", "/">> @@
    "g" :> <<"g">> @@
    "c" :> <<"c">> @@
    "\"*.md\"" :> <<"\"", "*", ".", "m", "d", "\"">> @@
    "\"*.tmp\"" :> <<"\"", "*", ".", "t", "m", "p", "\"">> @@
    "\\\"*.md\\\"" :> <<"\\", "\"", "*", ".", "m", "d", "\\", "\"">> @@
    "s/ab/c/gi" :> <<"s", "/", "a", "b", "/", "c", "/", "g", "i">> @@
    "ab" :> <<"a", "b">> @@
    "--include='*.rs'" :> <<"-", "-", "i", "n", "c", "l", "u", "d", "e", "=", "'", "*", ".", "r", "s", "'">> @@
    "!*.rs" :> <<"!", "*", ".", "r", "s">> @@
    "'\\<a'" :> <<"'", "\\", "<", "a", "'">> @@
    "'a\\>'" :> <<"'", "a", "\\", ">", "'">> @@
    "'(?i)a'" :> <<"'", "(", "?", "i", ")", "a", "'">> @@
    "'\\x41'" :> <<"'", "\\", "x", "4", "1", "'">> @@
    "'\\u00e9'" :> <<"'", "\\", "u", "0", "0", "e", "9", "'">> @@
    "'--regexp=\\bx'" :> <<"'", "-", "-", "r", "e", "g", "e", "x", "p", "=", "\\", "b", "x", "'">> @@
    "\\<a" :> <<"\\", "<", "a">> @@
    "a\\>" :> <<"a", "\\", ">">> @@
    "(?i)a" :> <<"(", "?", "i", ")", "a">> @@
    "\\x41" :> <<"\\", "x", "4", "1">> @@
    "\\u00e9" :> <<"\\", "u", "0", "0", "e", "9">> @@
    "--regexp=\\bx" :> <<"-", "-", "r", "e", "g", "e", "x", "p", "=", "\\", "b", "x">> @@
    "\\bx" :> <<"\\", "b", "x">> @@
    "e" :> <<"e">> @@
    "aux" :> <<"a", "u", "x">> @@
    "'a b'" :> <<"'", "a", " ", "b", "'">> @@
    "''" :> <<"'", "'">> @@
    "a b" :> <<"a", " ", "b">> @@
    "'\"'" :> <<"'", "\"", "'">> @@
    "\"'\"" :> <<"\"", "'", "\"">>
\* END string table

Str(s) == Chars[s]

\* a raw command line: its words separated by single spaces
Cmd(words) == Join([i \in 1..Len(words) |-> Str(words[i])], <<SP>>)

(***************************************************************************)
(* Result<Option<String>>                                                  *)
(***************************************************************************)
None == [kind |-> "None", value |-> <<>>]
Some(t) == [kind |-> "Some", value |-> t]
Err(msg) == [kind |-> "Err", value |-> <<msg>>]

(***************************************************************************)
(* Command Tokenizer: parse_command = shlex::split(command), with the      *)
(* word-splitting automaton of the shlex crate.  mode is the position in   *)
(* that automaton: "skip" (between words), "comment" (after #), "word",    *)
(* "single" and "double" (inside quotes).  The result is ParseFailed when  *)
(* a quote is unterminated or a backslash ends the input.                  *)
(***************************************************************************)
ParseFailed == [ok |-> FALSE, parts |-> <<>>]
Parsed(toks) == [ok |-> TRUE, parts |-> toks]

IsSpace(ch) == ch \in {SP, TAB, NL}

RECURSIVE ShlexFrom(_, _, _, _, _)
ShlexFrom(s, i, mode, cur, toks) ==
    IF i > Len(s) THEN
        CASE mode \in {"skip", "comment"} -> Parsed(toks)
          [] mode = "word" -> Parsed(Append(toks, cur))
          [] OTHER -> ParseFailed
    ELSE LET ch == s[i] IN
        CASE mode = "comment" ->
                ShlexFrom(s, i + 1, IF ch = NL THEN "skip" ELSE "comment", cur, toks)
          [] mode = "skip" /\ IsSpace(ch) -> ShlexFrom(s, i + 1, "skip", cur, toks)
          [] mode = "skip" /\ ch = "#" -> ShlexFrom(s, i + 1, "comment", cur, toks)
          [] mode = "skip" -> ShlexFrom(s, i, "word", <<>>, toks)
          [] mode = "word" /\ ch = DQ -> ShlexFrom(s, i + 1, "double", cur, toks)
          [] mode = "word" /\ ch = SQ -> ShlexFrom(s, i + 1, "single", cur, toks)
          [] mode = "word" /\ ch = BS ->
                IF i + 1 > Len(s) THEN ParseFailed
                ELSE ShlexFrom(s, i + 2, "word",
                               IF s[i + 1] = NL THEN cur ELSE Append(cur, s[i + 1]), toks)
          [] mode = "word" /\ IsSpace(ch) ->
                ShlexFrom(s, i + 1, "skip", <<>>, Append(toks, cur))
          [] mode = "word" -> ShlexFrom(s, i + 1, "word", Append(cur, ch), toks)
          [] mode = "single" /\ ch = SQ -> ShlexFrom(s, i + 1, "word", cur, toks)
          [] mode = "single" -> ShlexFrom(s, i + 1, "single", Append(cur, ch), toks)
          [] mode = "double" /\ ch = DQ -> ShlexFrom(s, i + 1, "word", cur, toks)
          [] mode = "double" /\ ch = BS ->
                IF i + 1 > Len(s) THEN ParseFailed
                ELSE ShlexFrom(s, i + 2, "double",
                               IF s[i + 1] \in {"$", BQ, DQ, BS} THEN Append(cur, s[i + 1])
                               ELSE IF s[i + 1] = NL THEN cur
                               ELSE cur \o <<BS, s[i + 1]>>,
                               toks)
          [] OTHER -> ShlexFrom(s, i + 1, "double", Append(cur, ch), toks)

parse_command(command) == ShlexFrom(command, 1, "skip", <<>>, <<>>)


(***************************************************************************)
(* Configuration (config.rs)                                               *)
(***************************************************************************)
StrSet(S) == {Str(w) : w \in S}

NoMappings == [k \in {} |-> <<>>]

\* Option<bool>
NoneBool == [some |-> FALSE, val |-> FALSE]
SomeBool(b) == [some |-> TRUE, val |-> b]
unwrap_or(o, d) == IF o.some THEN o.val ELSE d

default_timeout == 1000

\* Config::default().replacements
DefaultReplacements ==
    Str("grep") :> [enabled |-> TRUE, replacement |-> Str("rg"),
        preserve_flags |-> StrSet({"--color", "-n", "--line-number", "-i", "--ignore-case",
                                   "-v", "--invert-match", "-r", "--recursive",
                                   "-A", "-B", "-C"}),
        flag_mappings |-> NoMappings, priority |-> 10, use_fallback |-> TRUE] @@
    Str("find") :> [enabled |-> TRUE, replacement |-> Str("fd"),
        preserve_flags |-> StrSet({"-t", "--type", "-e", "--extension", "-H", "--hidden",
                                   "-I", "--no-ignore"}),
        flag_mappings |-> (Str("-name") :> Str("") @@ Str("-iname") :> Str("-i")),
        priority |-> 10, use_fallback |-> TRUE] @@
    Str("cat") :> [enabled |-> TRUE, replacement |-> Str("bat"),
        preserve_flags |-> StrSet({"-n", "--number"}),
        flag_mappings |-> (Str("-n") :> Str("--number")),
        priority |-> 5, use_fallback |-> TRUE] @@
    Str("ls") :> [enabled |-> TRUE, replacement |-> Str("eza"),
        preserve_flags |-> StrSet({"-l", "-a", "--all", "-h", "--human-readable",
                                   "-t", "--time", "-r", "--reverse"}),
        flag_mappings |-> NoMappings, priority |-> 8, use_fallback |-> TRUE] @@
    Str("sed") :> [enabled |-> TRUE, replacement |-> Str("sd"),
        preserve_flags |-> {}, flag_mappings |-> NoMappings,
        priority |-> 6, use_fallback |-> TRUE] @@
    Str("ps") :> [enabled |-> TRUE, replacement |-> Str("procs"),
        preserve_flags |-> StrSet({"-a", "-u", "-x", "-f"}),
        flag_mappings |-> NoMappings, priority |-> 7, use_fallback |-> TRUE]

\* A deny pattern.  Pattern(h, t) is the regex source "h.*t" with h and t
\* literal text (the shape of every default pattern); BadPattern is a source
\* that Regex::new rejects, such as "(".
Pattern(h, t) == [valid |-> TRUE, head |-> Str(h), tail |-> Str(t)]
BadPattern == [valid |-> FALSE, head |-> Str("("), tail |-> Str("")]

\* GlobalSettings::default().fallback_patterns
DefaultFallbackPatterns ==
    << Pattern("grep", "-P"), Pattern("grep", "--null-data"), Pattern("find", "-exec"),
       Pattern("find", "-size"), Pattern("find", "-perm") >>

\* GlobalSettings::default()
DefaultSettings ==
    [tool_check_timeout |-> default_timeout, cache_tool_checks |-> TRUE,
     compatibility_mode |-> NoneBool, semantic_analysis |-> TRUE,
     fallback_patterns |-> DefaultFallbackPatterns]

\* Config::default()
DefaultConfig == [replacements |-> DefaultReplacements, settings |-> DefaultSettings]

(***************************************************************************)
(* Safety Classifier, global part: the deny patterns                       *)
(***************************************************************************)
\* Regex::is_match for the regex "head.*tail": unanchored, and . matches
\* every character but the newline
is_match(p, s) ==
    LET Occurs(w) == {i \in 1..(Len(s) - Len(w) + 1) : SubSeq(s, i, i + Len(w) - 1) = w}
        heads == Occurs(p.head)
        tails == Occurs(p.tail)
    IN  \E i \in heads, j \in tails :
            /\ j >= i + Len(p.head)
            /\ \A k \in (i + Len(p.head))..(j - 1) : s[k] # NL

\* matches_fallback_patterns returning from inside the loop: only the first pattern is tried
matches_fallback_patterns_first_only(patterns, command) ==
    IF patterns = <<>> THEN [err |-> FALSE, matched |-> FALSE]
    ELSE IF ~patterns[1].valid THEN [err |-> TRUE, matched |-> FALSE]
    ELSE [err |-> FALSE, matched |-> is_match(patterns[1], command)]

\* The patterns are compiled and tried in order; the first invalid one met
\* before any match is the error, and nothing after the first match is compiled.
matches_fallback_patterns(patterns, command) ==
    LET stop == {i \in 1..Len(patterns) :
                    ~patterns[i].valid \/ is_match(patterns[i], command)}
        first == CHOOSE i \in stop : \A j \in stop : i <= j
    IN  IF stop = {} THEN [err |-> FALSE, matched |-> FALSE]
        ELSE IF ~patterns[first].valid THEN [err |-> TRUE, matched |-> FALSE]
        ELSE [err |-> FALSE, matched |-> TRUE]

(***************************************************************************)
(* Tool Availability Oracle: TOOL_CACHE and is_tool_available.  The answer  *)
(* of which(tool) is the input live.                                       *)
(***************************************************************************)
EmptyCache == [t \in {} |-> [available |-> FALSE, timestamp |-> 0]]

CacheInsert(c, tool, entry) ==
    [t \in DOMAIN c \cup {tool} |-> IF t = tool THEN entry ELSE c[t]]

NoEntry == [present |-> FALSE, available |-> FALSE, timestamp |-> 0]

\* cache.get(tool)
EntryOf(c, tool) ==
    IF tool \in DOMAIN c
    THEN [present |-> TRUE, available |-> c[tool].available, timestamp |-> c[tool].timestamp]
    ELSE NoEntry

\* one call's record: the tool asked for, the time of the call, the entry
\* cache.get(tool) found, the answers of the which() calls made, the value returned
OracleCall(tool, nowT, c, answers, result) ==
    [tool |-> tool, at |-> nowT, before |-> EntryOf(c, tool), answers |-> answers,
     result |-> result]

\* is_tool_available without the early return: the cached entry is never used
is_tool_available_always_probes(settings, c, nowT, tool, live) ==
    IF ~settings.cache_tool_checks
    THEN [result |-> live, cache |-> c, call |-> OracleCall(tool, nowT, c, <<live>>, live)]
    ELSE [result |-> live,
          cache |-> CacheInsert(c, tool, [available |-> live, timestamp |-> nowT]),
          call |-> OracleCall(tool, nowT, c, <<live>>, live)]

\* is_tool_available comparing the age with <= : an entry whose age has just
\* reached the TTL is still returned
is_tool_available_off_by_one(settings, c, nowT, tool, live) ==
    IF ~settings.cache_tool_checks
    THEN [result |-> live, cache |-> c, call |-> OracleCall(tool, nowT, c, <<live>>, live)]
    ELSE IF tool \in DOMAIN c /\ nowT - c[tool].timestamp <= settings.tool_check_timeout
    THEN [result |-> c[tool].available, cache |-> c,
          call |-> OracleCall(tool, nowT, c, <<>>, c[tool].available)]
    ELSE [result |-> live,
          cache |-> CacheInsert(c, tool, [available |-> live, timestamp |-> nowT]),
          call |-> OracleCall(tool, nowT, c, <<live>>, live)]

is_tool_available(settings, c, nowT, tool, live) ==
    IF ~settings.cache_tool_checks
    THEN [result |-> live, cache |-> c, call |-> OracleCall(tool, nowT, c, <<live>>, live)]
    ELSE IF tool \in DOMAIN c /\ nowT - c[tool].timestamp < settings.tool_check_timeout
    THEN [result |-> c[tool].available, cache |-> c,
          call |-> OracleCall(tool, nowT, c, <<>>, c[tool].available)]
    ELSE [result |-> live,
          cache |-> CacheInsert(c, tool, [available |-> live, timestamp |-> nowT]),
          call |-> OracleCall(tool, nowT, c, <<live>>, live)]

(***************************************************************************)
(* Per-tool translators (replacements.rs).  A translator's loop returns    *)
(* Fallback (the original command is to be used), Panicked (a slice out   *)
(* of range) or Translated(new_args).                                      *)
(***************************************************************************)
Fallback == [kind |-> "fallback", args |-> <<>>]
Panicked == [kind |-> "panic", args |-> <<>>]
Translated(new_args) == [kind |-> "ok", args |-> new_args]

Panic == [kind |-> "Panic", value |-> <<>>]

\* the translator's return value: Ok(None), a panic, or Ok(Some(command))
Finish(out, rc) ==
    CASE out.kind = "fallback" -> None
      [] out.kind = "panic" -> Panic
      [] OTHER -> Some(FormatCommand(rc.replacement, out.args))

\* pattern.trim_matches('"').trim_matches('\'')
StripQuotes_keeping(pattern) == pattern

StripQuotes(pattern) == TrimMatches(TrimMatches(pattern, DQ), SQ)

---------------------------------------------------------------------------
\* grep -> rg

\* has_complex_regex_patterns
ComplexRegexMarks == StrSet({"\\<", "\\>", "\\b", "(?", "\\x", "\\u"})

\* has_complex_regex_patterns that does not look for "(?"
has_complex_regex_patterns_without_groups(args) ==
    \E i \in 1..Len(args) :
        /\ ~IsFlag(args[i])
        /\ \E m \in ComplexRegexMarks \ {Str("(?")} : Contains(args[i], m)

has_complex_regex_patterns(args) ==
    \E i \in 1..Len(args) :
        /\ ~IsFlag(args[i])
        /\ \E m \in ComplexRegexMarks : Contains(args[i], m)

\* should_use_grep_fallback without the -a/--text arm
should_use_grep_fallback_without_text(engine, args) ==
    \/ \E i \in 1..Len(args) :
          \/ args[i] \in StrSet({"-P", "--perl-regexp"})
          \/ args[i] \in StrSet({"--null-data", "-z"})
    \/ has_complex_regex_patterns(args) /\ engine.compatibility_mode

should_use_grep_fallback(engine, args) ==
    \/ \E i \in 1..Len(args) :
          \/ args[i] \in StrSet({"-P", "--perl-regexp"})
          \/ args[i] \in StrSet({"-a", "--text"}) /\ engine.compatibility_mode
          \/ args[i] \in StrSet({"--null-data", "-z"})
    \/ has_complex_regex_patterns(args) /\ engine.compatibility_mode

\* has_ignore_flags that does not know --hidden
has_ignore_flags_without_hidden(args) ==
    \E i \in 1..Len(args) :
        args[i] \in StrSet({"--no-ignore", "-u", "--unrestricted"})

has_ignore_flags(args) ==
    \E i \in 1..Len(args) :
        args[i] \in StrSet({"--no-ignore", "--hidden", "-u", "--unrestricted"})

is_problematic_grep_flag(flag) ==
    flag \in StrSet({"--null-data", "-z", "--line-buffered", "--mmap",
                     "-U", "--binary", "-Z", "--null"})

\* the match arms of replace_grep that push one fixed flag
GrepRenamed ==
    Str("-F") :> Str("--fixed-strings") @@ Str("--fixed-strings") :> Str("--fixed-strings") @@
    Str("-o") :> Str("--only-matching") @@ Str("--only-matching") :> Str("--only-matching") @@
    Str("-c") :> Str("--count") @@ Str("--count") :> Str("--count") @@
    Str("-l") :> Str("--files-with-matches") @@
    Str("--files-with-matches") :> Str("--files-with-matches") @@
    Str("-L") :> Str("--files-without-match") @@
    Str("--files-without-match") :> Str("--files-without-match")

\* the context arms: the flag pushed for -A/-B/-C and their long forms
GrepContext ==
    Str("-A") :> Str("-A") @@ Str("--after-context") :> Str("-A") @@
    Str("-B") :> Str("-B") @@ Str("--before-context") :> Str("-B") @@
    Str("-C") :> Str("-C") @@ Str("--context") :> Str("-C")

\* the loop of replace_grep with the configured mapping consulted before the
\* preserve set
RECURSIVE GrepLoop_mapping_first(_, _, _, _, _)
GrepLoop_mapping_first(engine, rc, args, i, new_args) ==
    IF i > Len(args) THEN Translated(new_args)
    ELSE LET arg == args[i]
             more == i + 1 <= Len(args)
         IN
        IF ~IsFlag(arg) THEN GrepLoop_mapping_first(engine, rc, args, i + 1, Append(new_args, arg))
        ELSE CASE arg \in StrSet({"-E", "--extended-regexp"}) ->
                    IF engine.compatibility_mode THEN Fallback
                    ELSE GrepLoop_mapping_first(engine, rc, args, i + 1, new_args)
               [] arg \in DOMAIN GrepRenamed ->
                    GrepLoop_mapping_first(engine, rc, args, i + 1, Append(new_args, GrepRenamed[arg]))
               [] arg \in StrSet({"-P", "--perl-regexp"}) -> Fallback
               [] arg \in DOMAIN GrepContext ->
                    IF more
                    THEN GrepLoop_mapping_first(engine, rc, args, i + 2,
                                  new_args \o <<GrepContext[arg], args[i + 1]>>)
                    ELSE GrepLoop_mapping_first(engine, rc, args, i + 1, Append(new_args, GrepContext[arg]))
               [] StartsWith(arg, Str("--include=")) ->
                    GrepLoop_mapping_first(engine, rc, args, i + 1,
                             new_args \o <<Str("--glob"), StripQuotes(SubSeq(arg, 11, Len(arg)))>>)
               [] StartsWith(arg, Str("--exclude=")) ->
                    GrepLoop_mapping_first(engine, rc, args, i + 1,
                             new_args \o <<Str("--glob"),
                                           Str("!") \o StripQuotes(SubSeq(arg, 11, Len(arg)))>>)
               [] arg = Str("--include") ->
                    IF more
                    THEN GrepLoop_mapping_first(engine, rc, args, i + 2,
                                  new_args \o <<Str("--glob"), StripQuotes(args[i + 1])>>)
                    ELSE GrepLoop_mapping_first(engine, rc, args, i + 1, new_args)
               [] arg = Str("--exclude") ->
                    IF more
                    THEN GrepLoop_mapping_first(engine, rc, args, i + 2,
                                  new_args \o <<Str("--glob"), Str("!") \o StripQuotes(args[i + 1])>>)
                    ELSE GrepLoop_mapping_first(engine, rc, args, i + 1, new_args)
               [] OTHER ->
                    IF arg \in DOMAIN rc.flag_mappings
                    THEN GrepLoop_mapping_first(engine, rc, args, i + 1,
                                  IF rc.flag_mappings[arg] # <<>>
                                  THEN Append(new_args, rc.flag_mappings[arg])
                                  ELSE new_args)
                    ELSE IF arg \in rc.preserve_flags
                    THEN GrepLoop_mapping_first(engine, rc, args, i + 1, Append(new_args, arg))
                    ELSE IF is_problematic_grep_flag(arg) THEN Fallback
                    ELSE GrepLoop_mapping_first(engine, rc, args, i + 1, Append(new_args, arg))

\* the while loop of replace_grep, from index i with new_args built so far
RECURSIVE GrepLoop(_, _, _, _, _)
GrepLoop(engine, rc, args, i, new_args) ==
    IF i > Len(args) THEN Translated(new_args)
    ELSE LET arg == args[i]
             more == i + 1 <= Len(args)
         IN
        IF ~IsFlag(arg) THEN GrepLoop(engine, rc, args, i + 1, Append(new_args, arg))
        ELSE CASE arg \in StrSet({"-E", "--extended-regexp"}) ->
                    IF engine.compatibility_mode THEN Fallback
                    ELSE GrepLoop(engine, rc, args, i + 1, new_args)
               [] arg \in DOMAIN GrepRenamed ->
                    GrepLoop(engine, rc, args, i + 1, Append(new_args, GrepRenamed[arg]))
               [] arg \in StrSet({"-P", "--perl-regexp"}) -> Fallback
               [] arg \in DOMAIN GrepContext ->
                    IF more
                    THEN GrepLoop(engine, rc, args, i + 2,
                                  new_args \o <<GrepContext[arg], args[i + 1]>>)
                    ELSE GrepLoop(engine, rc, args, i + 1, Append(new_args, GrepContext[arg]))
               [] StartsWith(arg, Str("--include=")) ->
                    GrepLoop(engine, rc, args, i + 1,
                             new_args \o <<Str("--glob"), StripQuotes(SubSeq(arg, 11, Len(arg)))>>)
               [] StartsWith(arg, Str("--exclude=")) ->
                    GrepLoop(engine, rc, args, i + 1,
                             new_args \o <<Str("--glob"),
                                           Str("!") \o StripQuotes(SubSeq(arg, 11, Len(arg)))>>)
               [] arg = Str("--include") ->
                    IF more
                    THEN GrepLoop(engine, rc, args, i + 2,
                                  new_args \o <<Str("--glob"), StripQuotes(args[i + 1])>>)
                    ELSE GrepLoop(engine, rc, args, i + 1, new_args)
               [] arg = Str("--exclude") ->
                    IF more
                    THEN GrepLoop(engine, rc, args, i + 2,
                                  new_args \o <<Str("--glob"), Str("!") \o StripQuotes(args[i + 1])>>)
                    ELSE GrepLoop(engine, rc, args, i + 1, new_args)
               [] OTHER ->
                    IF arg \in rc.preserve_flags
                    THEN GrepLoop(engine, rc, args, i + 1, Append(new_args, arg))
                    ELSE IF arg \in DOMAIN rc.flag_mappings
                    THEN GrepLoop(engine, rc, args, i + 1,
                                  IF rc.flag_mappings[arg] # <<>>
                                  THEN Append(new_args, rc.flag_mappings[arg])
                                  ELSE new_args)
                    ELSE IF is_problematic_grep_flag(arg) THEN Fallback
                    ELSE GrepLoop(engine, rc, args, i + 1, Append(new_args, arg))

replace_grep(engine, args, rc) ==
    IF should_use_grep_fallback(engine, args) THEN None
    ELSE Finish(GrepLoop(engine, rc, args, 1,
                         IF engine.is_git_repo /\ ~has_ignore_flags(args)
                         THEN <<Str("--no-ignore"), Str("--hidden")>>
                         ELSE <<>>),
                rc)

---------------------------------------------------------------------------
\* find -> fd

FindActions == StrSet({"-exec", "-execdir", "-ok", "-okdir", "-delete", "-print0"})
FindTimes == StrSet({"-mtime", "-ctime", "-atime"})
FindOwners == StrSet({"-user", "-group", "-uid", "-gid"})
FindLogic == StrSet({"-and", "-or", "-not", "!", "(", ")"})
FindTypes == Str("f") :> Str("file") @@ Str("d") :> Str("directory") @@ Str("l") :> Str("symlink")
FindDepth == Str("-maxdepth") :> Str("--max-depth") @@ Str("-mindepth") :> Str("--min-depth")

is_problematic_find_flag(flag) ==
    flag \in StrSet({"-daystart", "-follow", "-regextype", "-warn", "-nowarn",
                     "-mount", "-xdev", "-prune", "-quit",
                     "-printf", "-fprintf", "-fprint", "-fls", "-ls", "-fprint0"})

has_complex_find_expressions(args) ==
    \E i \in 1..Len(args) :
        args[i] \in StrSet({"-and", "-or", "-not", "!",
                            "-exec", "-execdir", "-ok", "-okdir",
                            "-regex", "-iregex",
                            "-newer", "-cnewer", "-anewer", "-samefile", "-inum", "-links"})

\* should_use_find_fallback without the arm of the action clauses
should_use_find_fallback_without_actions(engine, args) ==
    \/ \E i \in 1..Len(args) :
          \/ args[i] \in StrSet({"-size", "-perm"}) \cup FindTimes \cup FindOwners
          \/ args[i] \in FindLogic
          \/ /\ args[i] = Str("-type")
             /\ i + 1 <= Len(args)
             /\ args[i + 1] \notin DOMAIN FindTypes
    \/ engine.compatibility_mode /\ has_complex_find_expressions(args)

should_use_find_fallback(engine, args) ==
    \/ \E i \in 1..Len(args) :
          \/ args[i] \in FindActions
          \/ args[i] \in StrSet({"-size", "-perm"}) \cup FindTimes \cup FindOwners
          \/ args[i] \in FindLogic
          \/ /\ args[i] = Str("-type")
             /\ i + 1 <= Len(args)
             /\ args[i + 1] \notin DOMAIN FindTypes
    \/ engine.compatibility_mode /\ has_complex_find_expressions(args)

\* convert_glob_to_regex: one pair of surrounding quotes is removed.  The
\* slice pattern[1..len-1] is out of range for a pattern that is a single
\* quote character, and the call panics.
convert_glob_to_regex(glob_pattern) ==
    LET n == Len(glob_pattern)
        quoted(q) == n >= 1 /\ glob_pattern[1] = q /\ glob_pattern[n] = q
    IN  IF quoted(DQ) \/ quoted(SQ)
        THEN IF n = 1 THEN [panic |-> TRUE, value |-> <<>>]
             ELSE [panic |-> FALSE, value |-> SubSeq(glob_pattern, 2, n - 1)]
        ELSE [panic |-> FALSE, value |-> glob_pattern]

NoPattern == [some |-> FALSE, value |-> <<>>]

\* the tail of replace_find pushing the default "." whenever no path was given
FindAssemble_default_dot(new_args, pattern, search_paths) ==
    (IF pattern.some THEN <<pattern.value>> ELSE <<>>) \o new_args \o search_paths
    \o (IF search_paths = <<>> THEN <<Str(".")>> ELSE <<>>)

\* the tail of replace_find: pattern first, then the flags, the paths, the default "."
FindAssemble(new_args, pattern, search_paths) ==
    (IF pattern.some THEN <<pattern.value>> ELSE <<>>) \o new_args \o search_paths
    \o (IF search_paths = <<>> /\ pattern.some THEN <<Str(".")>> ELSE <<>>)

\* the while loop of replace_find
RECURSIVE FindLoop(_, _, _, _, _, _)
FindLoop(rc, args, i, new_args, pattern, search_paths) ==
    IF i > Len(args) THEN Translated(FindAssemble(new_args, pattern, search_paths))
    ELSE LET arg == args[i]
             more == i + 1 <= Len(args)
             named(pushed) ==
                 IF ~more THEN FindLoop(rc, args, i + 1, pushed, pattern, search_paths)
                 ELSE LET p == convert_glob_to_regex(args[i + 1])
                      IN  IF p.panic THEN Panicked
                          ELSE FindLoop(rc, args, i + 2, pushed,
                                        [some |-> TRUE, value |-> p.value], search_paths)
             globbed(pushed) ==
                 IF ~more THEN FindLoop(rc, args, i + 1, pushed, pattern, search_paths)
                 ELSE FindLoop(rc, args, i + 2, pushed \o <<Str("--glob"), args[i + 1]>>,
                               pattern, search_paths)
         IN
        CASE arg = Str("-name") -> named(new_args)
          [] arg = Str("-iname") -> named(Append(new_args, Str("-i")))
          [] arg = Str("-path") -> globbed(new_args)
          [] arg = Str("-ipath") -> globbed(Append(new_args, Str("-i")))
          [] arg = Str("-type") ->
                IF ~more THEN FindLoop(rc, args, i + 1, new_args, pattern, search_paths)
                ELSE IF args[i + 1] \in DOMAIN FindTypes
                THEN FindLoop(rc, args, i + 2,
                              new_args \o <<Str("--type"), FindTypes[args[i + 1]]>>,
                              pattern, search_paths)
                ELSE Fallback
          [] arg = Str("-size") \/ arg \in FindTimes \/ arg \in FindActions -> Fallback
          [] arg \in DOMAIN FindDepth ->
                IF ~more THEN FindLoop(rc, args, i + 1, new_args, pattern, search_paths)
                ELSE FindLoop(rc, args, i + 2, new_args \o <<FindDepth[arg], args[i + 1]>>,
                              pattern, search_paths)
          [] arg \in StrSet({"-perm", "-readable", "-writable", "-executable"}) -> Fallback
          [] arg \in FindOwners \/ arg \in FindLogic -> Fallback
          [] IsFlag(arg) ->
                IF arg \in rc.preserve_flags
                THEN FindLoop(rc, args, i + 1, Append(new_args, arg), pattern, search_paths)
                ELSE IF is_problematic_find_flag(arg) THEN Fallback
                ELSE FindLoop(rc, args, i + 1, new_args, pattern, search_paths)
          [] OTHER -> FindLoop(rc, args, i + 1, new_args, pattern, Append(search_paths, arg))

replace_find(engine, args, rc) ==
    IF should_use_find_fallback(engine, args) THEN None
    ELSE Finish(FindLoop(rc, args, 1, <<Str("-H"), Str("-I")>>, NoPattern, <<>>), rc)

---------------------------------------------------------------------------
\* cat -> bat, ls -> eza/exa, ps -> procs, sed -> sd

RECURSIVE CatLoop(_, _, _, _)
CatLoop(rc, args, i, new_args) ==
    IF i > Len(args) THEN new_args
    ELSE LET arg == args[i] IN
        CatLoop(rc, args, i + 1,
                IF IsFlag(arg)
                THEN IF arg \in DOMAIN rc.flag_mappings THEN Append(new_args, rc.flag_mappings[arg])
                     ELSE IF arg \in rc.preserve_flags THEN Append(new_args, arg)
                     ELSE new_args
                ELSE Append(new_args, arg))

replace_cat(args, rc) ==
    Some(FormatCommand(rc.replacement, CatLoop(rc, args, 1, <<Str("--style=plain")>>)))

\* the loop of replace_ls and replace_ps keeping every flag
RECURSIVE KeepPreserved_every_flag(_, _, _, _)
KeepPreserved_every_flag(rc, args, i, new_args) ==
    IF i > Len(args) THEN new_args
    ELSE KeepPreserved_every_flag(rc, args, i + 1, Append(new_args, args[i]))

\* the loop shared by replace_ls and replace_ps
RECURSIVE KeepPreserved(_, _, _, _)
KeepPreserved(rc, args, i, new_args) ==
    IF i > Len(args) THEN new_args
    ELSE KeepPreserved(rc, args, i + 1,
                       IF args[i] \in rc.preserve_flags \/ ~IsFlag(args[i])
                       THEN Append(new_args, args[i])
                       ELSE new_args)

replace_ls(args, rc) == Some(FormatCommand(rc.replacement, KeepPreserved(rc, args, 1, <<>>)))

replace_ps(args, rc) == Some(FormatCommand(rc.replacement, KeepPreserved(rc, args, 1, <<>>)))

\* parse_sed_expression with any characters accepted after the third slash
parse_sed_expression_any_flags(expr) ==
    LET slashes == {k \in 1..Len(expr) : expr[k] = "/"}
        nth(S, n) == CHOOSE k \in S : Cardinality({j \in S : j <= k}) = n
        s1 == nth(slashes, 1)
        s2 == nth(slashes, 2)
        s3 == nth(slashes, 3)
    IN  IF /\ Cardinality(slashes) = 3
           /\ Len(expr) >= 2 /\ expr[1] = "s" /\ expr[2] = "/"
           /\ s2 > s1 + 1
        THEN [some |-> TRUE, pattern |-> SubSeq(expr, s1 + 1, s2 - 1),
              replacement |-> SubSeq(expr, s2 + 1, s3 - 1)]
        ELSE [some |-> FALSE, pattern |-> <<>>, replacement |-> <<>>]

\* SED_REGEX ^s/([^/]+)/([^/]*)/[gi]*$ : the expression holds exactly three
\* slashes, the first right after the s, a non-empty pattern between the first
\* two, and only g and i after the third.
parse_sed_expression(expr) ==
    LET slashes == {k \in 1..Len(expr) : expr[k] = "/"}
        nth(S, n) == CHOOSE k \in S : Cardinality({j \in S : j <= k}) = n
        s1 == nth(slashes, 1)
        s2 == nth(slashes, 2)
        s3 == nth(slashes, 3)
    IN  IF /\ Cardinality(slashes) = 3
           /\ Len(expr) >= 2 /\ expr[1] = "s" /\ expr[2] = "/"
           /\ s2 > s1 + 1
           /\ \A k \in (s3 + 1)..Len(expr) : expr[k] \in {"g", "i"}
        THEN [some |-> TRUE, pattern |-> SubSeq(expr, s1 + 1, s2 - 1),
              replacement |-> SubSeq(expr, s2 + 1, s3 - 1)]
        ELSE [some |-> FALSE, pattern |-> <<>>, replacement |-> <<>>]

replace_sed(args, rc) ==
    IF Len(args) >= 1 /\ parse_sed_expression(args[1]).some
    THEN LET captures == parse_sed_expression(args[1])
         IN  Some(FormatCommand(rc.replacement,
                                <<captures.pattern, captures.replacement>> \o Tail(args)))
    ELSE None

apply_replacement(engine, original_cmd, args, rc) ==
    CASE original_cmd = Str("grep") -> replace_grep(engine, args, rc)
      [] original_cmd = Str("find") -> replace_find(engine, args, rc)
      [] original_cmd = Str("cat") -> replace_cat(args, rc)
      [] original_cmd = Str("ls") -> replace_ls(args, rc)
      [] original_cmd = Str("sed") -> replace_sed(args, rc)
      [] original_cmd = Str("ps") -> replace_ps(args, rc)
      [] OTHER -> None

(***************************************************************************)
(* Translation Coordinator: replace_command.  liveTarget and liveAlt are   *)
(* what which() answers for the rule's target and for the alternative,     *)
(* should the call reach them.  The value is the Result, the cache after   *)
(* the call and the Oracle calls made, in order.                           *)
(***************************************************************************)
Outcome(result, c, calls) == [result |-> result, cache |-> c, calls |-> calls]

\* get_alternative_tool: only ls has one, exa
get_alternative_tool(settings, c, nowT, original_cmd, live) ==
    IF original_cmd = Str("ls")
    THEN LET o == is_tool_available(settings, c, nowT, Str("exa"), live)
         IN  [some |-> o.result, tool |-> Str("exa"), cache |-> o.cache, calls |-> <<o.call>>]
    ELSE [some |-> FALSE, tool |-> <<>>, cache |-> c, calls |-> <<>>]

\* Dispatch that runs the translator although no tool was found available
Dispatch_attempt_anyway(engine, c, nowT, cmd, args, rc, liveTarget, liveAlt) ==
    LET settings == engine.config.settings
        o == is_tool_available(settings, c, nowT, rc.replacement, liveTarget)
    IN  IF o.result
        THEN Outcome(apply_replacement(engine, cmd, args, rc), o.cache, <<o.call>>)
        ELSE IF ~rc.use_fallback THEN Outcome(None, o.cache, <<o.call>>)
        ELSE LET alt == get_alternative_tool(settings, o.cache, nowT, cmd, liveAlt)
             IN  IF alt.some
                 THEN Outcome(apply_replacement(engine, cmd, args,
                                                [rc EXCEPT !.replacement = alt.tool]),
                              alt.cache, <<o.call>> \o alt.calls)
                 ELSE Outcome(apply_replacement(engine, cmd, args, rc),
                              alt.cache, <<o.call>> \o alt.calls)

\* Dispatch that tries the alternative before it looks at use_fallback
Dispatch_alternative_first(engine, c, nowT, cmd, args, rc, liveTarget, liveAlt) ==
    LET settings == engine.config.settings
        o == is_tool_available(settings, c, nowT, rc.replacement, liveTarget)
    IN  IF o.result
        THEN Outcome(apply_replacement(engine, cmd, args, rc), o.cache, <<o.call>>)
        ELSE LET alt == get_alternative_tool(settings, o.cache, nowT, cmd, liveAlt)
             IN  IF alt.some
                 THEN Outcome(apply_replacement(engine, cmd, args,
                                                [rc EXCEPT !.replacement = alt.tool]),
                              alt.cache, <<o.call>> \o alt.calls)
                 ELSE Outcome(None, alt.cache, <<o.call>> \o alt.calls)

\* Dispatch that asks the translator's safety predicate before the Oracle
Dispatch_safety_first(engine, c, nowT, cmd, args, rc, liveTarget, liveAlt) ==
    LET settings == engine.config.settings
        o == is_tool_available(settings, c, nowT, rc.replacement, liveTarget)
    IN  IF \/ cmd = Str("grep") /\ should_use_grep_fallback(engine, args)
           \/ cmd = Str("find") /\ should_use_find_fallback(engine, args)
        THEN Outcome(None, c, <<>>)
        ELSE IF o.result
        THEN Outcome(apply_replacement(engine, cmd, args, rc), o.cache, <<o.call>>)
        ELSE IF ~rc.use_fallback THEN Outcome(None, o.cache, <<o.call>>)
        ELSE LET alt == get_alternative_tool(settings, o.cache, nowT, cmd, liveAlt)
             IN  IF alt.some
                 THEN Outcome(apply_replacement(engine, cmd, args,
                                                [rc EXCEPT !.replacement = alt.tool]),
                              alt.cache, <<o.call>> \o alt.calls)
                 ELSE Outcome(None, alt.cache, <<o.call>> \o alt.calls)

\* replace_command from the availability check on (the rule exists and is enabled)
Dispatch(engine, c, nowT, cmd, args, rc, liveTarget, liveAlt) ==
    LET settings == engine.config.settings
        o == is_tool_available(settings, c, nowT, rc.replacement, liveTarget)
    IN  IF o.result
        THEN Outcome(apply_replacement(engine, cmd, args, rc), o.cache, <<o.call>>)
        ELSE IF ~rc.use_fallback THEN Outcome(None, o.cache, <<o.call>>)
        ELSE LET alt == get_alternative_tool(settings, o.cache, nowT, cmd, liveAlt)
             IN  IF alt.some
                 THEN Outcome(apply_replacement(engine, cmd, args,
                                                [rc EXCEPT !.replacement = alt.tool]),
                              alt.cache, <<o.call>> \o alt.calls)
                 ELSE Outcome(None, alt.cache, <<o.call>> \o alt.calls)

\* the deny check of replace_command: semantic_analysis && matches_fallback_patterns(command)?
DenyCheck(settings, command) ==
    IF settings.semantic_analysis
    THEN matches_fallback_patterns(settings.fallback_patterns, command)
    ELSE [err |-> FALSE, matched |-> FALSE]

replace_command(engine, c, nowT, command, liveTarget, liveAlt) ==
    LET settings == engine.config.settings
        deny == DenyCheck(settings, command)
        parsed == parse_command(command)
    IN  IF deny.err THEN Outcome(Err("Invalid fallback pattern"), c, <<>>)
        ELSE IF deny.matched THEN Outcome(None, c, <<>>)
        ELSE IF ~parsed.ok THEN Outcome(Err("Failed to parse command"), c, <<>>)
        ELSE IF parsed.parts = <<>> THEN Outcome(None, c, <<>>)
        ELSE LET cmd == parsed.parts[1]
                 args == Tail(parsed.parts)
             IN  IF cmd \notin DOMAIN engine.config.replacements THEN Outcome(None, c, <<>>)
                 ELSE IF ~engine.config.replacements[cmd].enabled THEN Outcome(None, c, <<>>)
                 ELSE Dispatch(engine, c, nowT, cmd, args, engine.config.replacements[cmd],
                               liveTarget, liveAlt)

(***************************************************************************)
(* State.  The process is the hook of main.rs: Config::load, one           *)
(* ReplacementEngine::new, one replace_command; TOOL_CACHE is the process- *)
(* wide static, and now is the monotonic clock Instant::now() reads, in    *)
(* milliseconds.  last records the latest call with its outcome, and       *)
(* stdout the outputs the process has printed.                             *)
(***************************************************************************)
VARIABLES engine, cache, now, last, phase, threads, lock, stdout

vars == <<engine, cache, now, last, phase, threads, lock, stdout>>

\* the threads that call into one engine, and no thread
NumThreads == 2
Threads == 1..NumThreads
NoThread == 0

\* a thread that has not called: pc is its position in is_tool_available, now
\* its local Instant::now(), result the value it returns, probed whether it
\* ran which(), waited whether it blocked in lock(), end the time it returned
IdleThread ==
    [pc |-> "idle", tool |-> <<>>, now |-> 0, result |-> FALSE, probed |-> FALSE,
     waited |-> FALSE, end |-> 0]

NoEngine ==
    [built |-> FALSE, config |-> DefaultConfig, compatibility_mode |-> FALSE,
     is_git_repo |-> FALSE]

Ok == [kind |-> "Ok", value |-> <<>>]
Bool(b) == [kind |-> IF b THEN "true" ELSE "false", value |-> <<>>]

\* parsed is parse_command(command), kept with the call
Call(op, command, fedback, result, calls, before) ==
    [op |-> op, command |-> command, fedback |-> fedback, result |-> result,
     calls |-> calls, before |-> before, parsed |-> parse_command(command)]

NoCall == Call("none", <<>>, FALSE, None, <<>>, EmptyCache)

---------------------------------------------------------------------------
\* The configurations and commands explored

MaxTime == 2
MaxTimeout == 2

\* rule sets: the default one, one with grep and ls disabled, one with
\* fallback-on-missing off in every rule
SomeDisabled ==
    [c \in DOMAIN DefaultReplacements |->
        [DefaultReplacements[c] EXCEPT !.enabled = c \notin StrSet({"grep", "ls"})]]
NoFallbackRules ==
    [c \in DOMAIN DefaultReplacements |-> [DefaultReplacements[c] EXCEPT !.use_fallback = FALSE]]
RuleSets == {DefaultReplacements, SomeDisabled, NoFallbackRules}

PatternLists ==
    { DefaultFallbackPatterns, <<>>,
      <<BadPattern>> \o DefaultFallbackPatterns, DefaultFallbackPatterns \o <<BadPattern>> }

Configs ==
    { [replacements |-> r,
       settings |-> [tool_check_timeout |-> default_timeout, cache_tool_checks |-> ctc,
                     compatibility_mode |-> cm, semantic_analysis |-> sa,
                     fallback_patterns |-> fp]] :
        r \in RuleSets, ctc \in BOOLEAN, sa \in BOOLEAN, fp \in PatternLists,
        cm \in {NoneBool, SomeBool(TRUE), SomeBool(FALSE)} }

Commands ==
    { Cmd(<<"grep", "-n", "pat", "f">>), Cmd(<<"grep", "-P", "pat", "f">>),
      Cmd(<<"grep", "-z", "pat", "f">>), Cmd(<<"grep", "--null-data", "pat">>),
      Cmd(<<"grep", "-E", "pat", "f">>), Cmd(<<"grep", "'pat">>),
      Cmd(<<"grep", "\"it's\"", "f">>),
      Cmd(<<"find", ".", "-name", "'*.rs'">>), Cmd(<<"find", ".", "-delete">>),
      Cmd(<<"find", ".", "-size", "+1">>), Cmd(<<"find", ".", "-exec", "rm">>),
      Cmd(<<"ls", "-l", "d">>), Cmd(<<"ls">>), Cmd(<<"cat", "-n", "f">>),
      Cmd(<<"sed", "s/a/b/", "f">>), Cmd(<<"sed", "-e", "x">>), Cmd(<<"ps", "-a">>),
      Cmd(<<"foo", "x">>), Cmd(<<"foo", "grep", "-P">>), Cmd(<<"rg", "-n", "pat", "f">>),
      Cmd(<<"cat", "grep", "-P">>), Cmd(<<"ls", "find", "-exec">>),
      Cmd(<<"">>), Cmd(<<" ">>) }

---------------------------------------------------------------------------
\* The hook process

Init ==
    /\ engine = NoEngine
    /\ cache = EmptyCache
    /\ now = 0
    /\ last = NoCall
    /\ phase = "start"
    /\ threads = [t \in Threads |-> IdleThread]
    /\ lock = NoThread
    /\ stdout = <<>>

\* ReplacementEngine::new: Ok unless detect_git_repo fails; the deny patterns
\* are not looked at
NewEngine(config, git) ==
    [built |-> TRUE, config |-> config,
     compatibility_mode |-> unwrap_or(config.settings.compatibility_mode, FALSE),
     is_git_repo |-> git]

New ==
    /\ phase = "start"
    /\ \E config \in Configs, git \in BOOLEAN :
          engine' = NewEngine(config, git)
    /\ last' = Call("new", <<>>, FALSE, Ok, <<>>, cache)
    /\ phase' = "ready"
    /\ UNCHANGED <<cache, now, threads, lock, stdout>>

\* std::env::current_dir() fails: new returns the error and run() ends
NewFails ==
    /\ phase = "start"
    /\ last' = Call("new", <<>>, FALSE, Err("current_dir"), <<>>, cache)
    /\ phase' = "done"
    /\ UNCHANGED <<engine, cache, now, threads, lock, stdout>>

\* engine.replace_command(&tool_data.command)
Evaluate ==
    /\ phase = "ready"
    /\ \E command \in Commands, liveTarget \in BOOLEAN, liveAlt \in BOOLEAN :
          LET out == replace_command(engine, cache, now, command, liveTarget, liveAlt)
          IN  /\ cache' = out.cache
              /\ last' = Call("replace_command", command, FALSE, out.result, out.calls, cache)
    /\ phase' = "evaluated"
    /\ UNCHANGED <<engine, now, threads, lock, stdout>>

\* the translated command is given to replace_command again
Retranslate ==
    /\ phase = "evaluated"
    /\ last.result.kind = "Some"
    /\ \E liveTarget \in BOOLEAN, liveAlt \in BOOLEAN :
          LET out == replace_command(engine, cache, now, last.result.value, liveTarget, liveAlt)
          IN  /\ cache' = out.cache
              /\ last' = Call("replace_command", last.result.value, TRUE, out.result,
                              out.calls, cache)
    /\ phase' = "done"
    /\ UNCHANGED <<engine, now, threads, lock, stdout>>

Next == New \/ NewFails \/ Evaluate \/ Retranslate

Spec == Init /\ [][Next]_vars

---------------------------------------------------------------------------
\* A long-lived process (the test suite, a server): one engine answers many
\* calls while the clock advances, so cached entries are met again and expire.

CacheConfigs ==
    { [replacements |-> r,
       settings |-> [DefaultSettings EXCEPT !.cache_tool_checks = ctc,
                                            !.tool_check_timeout = ttl]] :
        r \in {DefaultReplacements, NoFallbackRules}, ctc \in BOOLEAN, ttl \in 0..MaxTimeout }

ProbedTools == StrSet({"eza", "exa"})

ServedCommands == { Cmd(<<"ls", "-l", "d">>) }

InitCache ==
    /\ engine \in {NewEngine(config, FALSE) : config \in CacheConfigs}
    /\ cache = EmptyCache
    /\ now = 0
    /\ last = NoCall
    /\ phase = "serving"
    /\ threads = [t \in Threads |-> IdleThread]
    /\ lock = NoThread
    /\ stdout = <<>>

\* the clock advances by a millisecond
Tick ==
    /\ phase = "serving"
    /\ now < MaxTime
    /\ now' = now + 1
    /\ UNCHANGED <<engine, cache, last, phase, threads, lock, stdout>>

\* engine.is_tool_available(tool), the public entry of the Oracle
CallIsToolAvailable ==
    /\ phase = "serving"
    /\ \E tool \in ProbedTools, live \in BOOLEAN :
          LET o == is_tool_available(engine.config.settings, cache, now, tool, live)
          IN  /\ cache' = o.cache
              /\ last' = Call("is_tool_available", tool, FALSE, Bool(o.result), <<o.call>>, cache)
    /\ UNCHANGED <<engine, now, phase, threads, lock, stdout>>

\* engine.replace_command(command)
Serve ==
    /\ phase = "serving"
    /\ \E command \in ServedCommands, liveTarget \in BOOLEAN, liveAlt \in BOOLEAN :
          LET out == replace_command(engine, cache, now, command, liveTarget, liveAlt)
          IN  /\ cache' = out.cache
              /\ last' = Call("replace_command", command, FALSE, out.result, out.calls, cache)
    /\ UNCHANGED <<engine, now, phase, threads, lock, stdout>>

NextCache == Tick \/ CallIsToolAvailable \/ Serve

SpecCache == InitCache /\ [][NextCache]_vars

---------------------------------------------------------------------------
\* Several threads call is_tool_available on one engine with caching on, once
\* each.
\* Each statement of the function that touches the clock, the mutex, the map
\* or the file system is a step of its own, so the calls interleave freely.

ThreadConfigs ==
    { [replacements |-> DefaultReplacements,
       settings |-> [DefaultSettings EXCEPT !.cache_tool_checks = TRUE,
                                            !.tool_check_timeout = ttl]] :
        ttl \in 0..MaxTimeout }

\* the tool the threads ask for: the calls that share a cache entry
ThreadTools == StrSet({"rg"})

InitThreads ==
    /\ engine \in {NewEngine(config, FALSE) : config \in ThreadConfigs}
    /\ cache = EmptyCache
    /\ now = 0
    /\ last = NoCall
    /\ phase = "serving"
    /\ threads = [t \in Threads |-> IdleThread]
    /\ lock = NoThread
    /\ stdout = <<>>

\* now.duration_since(timestamp), which is zero when timestamp is later than now
duration_since(nowT, timestamp) == IF nowT >= timestamp THEN nowT - timestamp ELSE 0

\* let now = Instant::now(), on the caching path
ReadClock(t) ==
    /\ threads[t].pc = "idle"
    /\ engine.config.settings.cache_tool_checks
    /\ \E tool \in ThreadTools :
          threads' = [threads EXCEPT ![t] = [@ EXCEPT !.pc = "lock", !.tool = tool, !.now = now]]
    /\ UNCHANGED <<engine, cache, now, last, phase, lock, stdout>>

\* lock() that returns although another thread holds the mutex
LockCache_unguarded(t) ==
    /\ threads[t].pc = "lock"
    /\ lock' = t
    /\ threads' = [u \in Threads |->
                      IF u = t THEN [threads[u] EXCEPT !.pc = "get"]
                      ELSE IF threads[u].pc = "lock" THEN [threads[u] EXCEPT !.waited = TRUE]
                      ELSE threads[u]]
    /\ UNCHANGED <<engine, cache, now, last, phase, stdout>>

\* TOOL_CACHE.lock().unwrap(): returns once no thread holds the mutex; the
\* threads left blocked in lock() are marked
LockCache(t) ==
    /\ threads[t].pc = "lock"
    /\ lock = NoThread
    /\ lock' = t
    /\ threads' = [u \in Threads |->
                      IF u = t THEN [threads[u] EXCEPT !.pc = "get"]
                      ELSE IF threads[u].pc = "lock" THEN [threads[u] EXCEPT !.waited = TRUE]
                      ELSE threads[u]]
    /\ UNCHANGED <<engine, cache, now, last, phase, stdout>>

\* cache.get(tool) and the early return of a fresh entry, which drops the guard
GetEntry(t) ==
    /\ threads[t].pc = "get"
    /\ LET th == threads[t]
           fresh == /\ th.tool \in DOMAIN cache
                    /\ duration_since(th.now, cache[th.tool].timestamp)
                          < engine.config.settings.tool_check_timeout
       IN  IF fresh
           THEN /\ threads' = [threads EXCEPT ![t] =
                                  [@ EXCEPT !.pc = "done", !.result = cache[th.tool].available,
                                            !.end = now]]
                /\ lock' = NoThread
           ELSE /\ threads' = [threads EXCEPT ![t] = [@ EXCEPT !.pc = "which"]]
                /\ lock' = lock
    /\ UNCHANGED <<engine, cache, now, last, phase, stdout>>

\* which(tool).is_ok(), with the guard held
Which(t) ==
    /\ threads[t].pc = "which"
    /\ \E live \in BOOLEAN :
          threads' = [threads EXCEPT ![t] =
                         [@ EXCEPT !.pc = "insert", !.result = live, !.probed = TRUE]]
    /\ UNCHANGED <<engine, cache, now, last, phase, lock, stdout>>

\* cache.insert(tool, (available, now)) and the return, which drops the guard
InsertEntry(t) ==
    /\ threads[t].pc = "insert"
    /\ cache' = CacheInsert(cache, threads[t].tool,
                            [available |-> threads[t].result, timestamp |-> threads[t].now])
    /\ threads' = [threads EXCEPT ![t] = [@ EXCEPT !.pc = "done", !.end = now]]
    /\ lock' = NoThread
    /\ UNCHANGED <<engine, now, last, phase, stdout>>

NextThreads ==
    \/ Tick
    \/ \E t \in Threads : ReadClock(t)
    \/ \E t \in Threads : LockCache(t)
    \/ \E t \in Threads : GetEntry(t)
    \/ \E t \in Threads : Which(t)
    \/ \E t \in Threads : InsertEntry(t)

SpecThreads == InitThreads /\ [][NextThreads]_vars

---------------------------------------------------------------------------
\* One evaluation of one command by an engine whose rule set and modes are
\* drawn from TranslateConfigs: the Per-Tool Translators applied to every
\* command that MaxItems items of the families below can spell.

MaxItems == 3

\* a rule set whose preserve sets and flag mappings meet the fixed match arms
\* of the translators
CustomRules ==
    [DefaultReplacements EXCEPT
        ![Str("grep")].preserve_flags = StrSet({"-n", "-F", "--hidden", "--mmap", "-A"}),
        ![Str("grep")].flag_mappings =
            Str("-i") :> Str("") @@ Str("-w") :> Str("--word-regexp") @@
            Str("-n") :> Str("--line-number"),
        ![Str("cat")].preserve_flags = StrSet({"-n", "-s"}),
        ![Str("cat")].flag_mappings = Str("-n") :> Str("--number") @@ Str("-v") :> Str("")]

TranslateConfigs ==
    { [replacements |-> DefaultReplacements,
       settings |-> [DefaultSettings EXCEPT !.cache_tool_checks = FALSE,
                                            !.compatibility_mode = cm]] :
        cm \in {NoneBool, SomeBool(TRUE)} }
    \cup
    { [replacements |-> CustomRules,
       settings |-> [DefaultSettings EXCEPT !.cache_tool_checks = FALSE,
                                            !.semantic_analysis = FALSE,
                                            !.compatibility_mode = cm]] :
        cm \in {NoneBool, SomeBool(TRUE)} }

\* the word sequences that at most n items spell, an item being one word or
\* a flag with its value
RECURSIVE ItemSeqs(_, _)
ItemSeqs(items, n) ==
    IF n = 0 THEN {<<>>}
    ELSE LET shorter == ItemSeqs(items, n - 1)
         IN  shorter \cup {s \o it : s \in shorter, it \in items}

CommandsOf(tool, items) == {Cmd(<<tool>> \o w) : w \in ItemSeqs(items, MaxItems)}

\* grep: the flags the safety predicate and the regex-flavour arms look at
GrepSafetyItems ==
    { <<"-E">>, <<"-P">>, <<"-a">>, <<"-z">>, <<"-A">>, <<"pat">> }
GrepLongItems ==
    { <<"--extended-regexp">>, <<"--perl-regexp">>, <<"--text">>, <<"--null-data">>, <<"pat">> }

\* find: every token the safety predicate rejects, and a -type it rejects,
\* set at every place among the words that MaxItems - 1 harmless items spell
FindUnsafeItems ==
    { <<w>> : w \in {"-exec", "-execdir", "-ok", "-okdir", "-delete", "-print0",
                     "-size", "-mtime", "-ctime", "-atime", "-perm",
                     "-user", "-group", "-uid", "-gid",
                     "-and", "-or", "-not", "!", "(", ")"} }
    \cup { <<"-type", "b">> }
FindHarmlessItems == { <<".">>, <<"-name", "'*.rs'">>, <<"-maxdepth">> }
FindUnsafeCommands ==
    UNION { { Cmd(<<"find">> \o SubSeq(w, 1, k) \o u \o SubSeq(w, k + 1, Len(w))) :
                u \in FindUnsafeItems, k \in 0..Len(w) } :
            w \in ItemSeqs(FindHarmlessItems, MaxItems - 1) }

\* find: search paths, patterns and flags with values, in every order
FindShapeItems ==
    { <<"a">>, <<"b">>, <<"-name", "'*.rs'">>, <<"-iname", "\\\"*.md\\\"">>, <<"-name">>,
      <<"-type", "f">> }

\* grep: flags that the rule sets preserve, map, or leave to the fixed arms
GrepFlagItems == { <<"-n">>, <<"-i">>, <<"-w">>, <<"-F">>, <<"pat">> }
GrepPreservedItems == { <<"--hidden">>, <<"--mmap">>, <<"-A", "3">>, <<"-n">>, <<"pat">> }

\* grep: the four include/exclude forms, their patterns in escaped quotes
GrepGlobItems ==
    { <<"--include=\\'*.rs\\'">>, <<"--include", "\\\"*.md\\\"">>,
      <<"--exclude=\\\"*.tmp\\\"">>, <<"--exclude", "\\'*.rs\\'">>,
      <<"-A">>, <<"pat">> }

\* cat: a mapped flag, a flag mapped to nothing, a preserved one, an unknown one
CatItems == { <<"-n">>, <<"-v">>, <<"-s">>, <<"-x">>, <<"f">> }

\* grep: a pattern with each construct the complex-regex heuristic looks for
\* and a flag holding one, set at every place among the words that
\* MaxItems - 1 plain patterns and harmless flags spell
GrepRegexItems ==
    { <<"'\\<a'">>, <<"'a\\>'">>, <<"'\\bx'">>, <<"'(?i)a'">>, <<"'\\x41'">>, <<"'\\u00e9'">>,
      <<"'--regexp=\\bx'">> }
GrepRegexCommands ==
    UNION { { Cmd(<<"grep">> \o SubSeq(w, 1, k) \o u \o SubSeq(w, k + 1, Len(w))) :
                u \in GrepRegexItems, k \in 0..Len(w) } :
            w \in ItemSeqs({ <<"pat">>, <<"-n">> }, MaxItems - 1) }

\* ls and ps: preserved flags, an unknown flag, operands
LsItems == { <<"-l">>, <<"-a">>, <<"-Z">>, <<"d">>, <<"e">> }
PsItems == { <<"-a">>, <<"-x">>, <<"-e">>, <<"aux">> }

\* sed: a first argument of every shape, then up to MaxItems - 1 more words
SedExprs ==
    { "s/a/b/", "s/a/b/g", "s/ab/c/gi", "s/a//", "s//b/", "s|a|b|", "s/a/b", "s/a/b/x",
      "s/a/b/;s/c/d/", "y/a/b/", "-e", "-i", "-n", "f" }
SedCommands ==
    { Cmd(<<"sed", e>> \o w) :
        e \in SedExprs, w \in ItemSeqs({ <<"f">>, <<"-e">>, <<"s/a/b/">> }, MaxItems - 1) }
    \cup { Cmd(<<"sed">>) }

TranslateGrepCommands ==
    CommandsOf("grep", GrepSafetyItems) \cup CommandsOf("grep", GrepLongItems)
    \cup CommandsOf("grep", GrepFlagItems) \cup CommandsOf("grep", GrepPreservedItems)
    \cup CommandsOf("grep", GrepGlobItems) \cup GrepRegexCommands

TranslateCommands ==
    TranslateGrepCommands
    \cup FindUnsafeCommands \cup CommandsOf("find", FindShapeItems)
    \cup CommandsOf("cat", CatItems) \cup SedCommands
    \cup CommandsOf("ls", LsItems) \cup CommandsOf("ps", PsItems)

InitTranslate ==
    /\ engine \in {NewEngine(config, git) : config \in TranslateConfigs, git \in BOOLEAN}
    /\ cache = EmptyCache
    /\ now = 0
    /\ last = NoCall
    /\ phase = "translating"
    /\ threads = [t \in Threads |-> IdleThread]
    /\ lock = NoThread
    /\ stdout = <<>>

\* engine.replace_command(command), which() finding the rule's target; only
\* replace_grep reads is_git_repo, so inside a repository grep alone is run
Translate ==
    /\ phase = "translating"
    /\ \E command \in (IF engine.is_git_repo THEN TranslateGrepCommands ELSE TranslateCommands) :
          \E out \in {replace_command(engine, cache, now, command, TRUE, FALSE)} :
              /\ cache' = out.cache
              /\ last' = Call("replace_command", command, FALSE, out.result, out.calls, cache)
    /\ phase' = "translated"
    /\ UNCHANGED <<engine, now, threads, lock, stdout>>

\* Commands with a quoted argument that holds a space or nothing, given to
\* every translator
QuotedItems == { <<"'a b'">>, <<"''">>, <<"f">>, <<"s/a/b/">> }
QuotedCommands ==
    UNION { CommandsOf(tool, QuotedItems) : tool \in {"grep", "find", "cat", "ls", "ps", "sed"} }

\* engine.replace_command(command) for a command with quoted arguments
TranslateQuoted ==
    /\ phase = "translating"
    /\ \E command \in QuotedCommands :
          \E out \in {replace_command(engine, cache, now, command, TRUE, FALSE)} :
              /\ cache' = out.cache
              /\ last' = Call("replace_command", command, FALSE, out.result, out.calls, cache)
    /\ phase' = "translated"
    /\ UNCHANGED <<engine, now, threads, lock, stdout>>

SpecQuoted == InitTranslate /\ [][TranslateQuoted]_vars

NextTranslate == Translate

SpecTranslate == InitTranslate /\ [][NextTranslate]_vars

---------------------------------------------------------------------------
\* The hook process with its input and output (main.rs)

\* the commands of Commands, and find commands whose -name or -iname pattern
\* is one quote character once the shell-like quoting is removed
HookCommands ==
    Commands \cup { Cmd(<<"find", ".", "-name", "'\"'">>),
                    Cmd(<<"find", ".", "-iname", "\"'\"">>) }

\* what run() learns from stdin: whether read_to_string succeeds, whether the
\* text deserializes into HookInput, event.type, and whether event.data
\* deserializes into BashToolData, with its command
HookInput(readable, json, event_type, data, command) ==
    [readable |-> readable, json |-> json, event_type |-> event_type, data |-> data,
     command |-> command]

HookInputs ==
    { HookInput(FALSE, FALSE, "", FALSE, <<>>), HookInput(TRUE, FALSE, "", FALSE, <<>>),
      HookInput(TRUE, TRUE, "PostToolUse", FALSE, <<>>),
      HookInput(TRUE, TRUE, "PreToolUse", FALSE, <<>>) }
    \cup { HookInput(TRUE, TRUE, event_type, TRUE, command) :
              event_type \in {"PreToolUse", "PostToolUse", "Stop"}, command \in HookCommands }

\* struct HookOutput; Decision is serialized in snake_case
NoMessage == [some |-> FALSE, value |-> <<>>]
NoContext == [some |-> FALSE, modified_command |-> <<>>, original_command |-> <<>>]
HookOutput(decision, message, context) ==
    [decision |-> decision, message |-> message, context |-> context]

\* the output main() prints for an error of run()
ErrorOutput(e) ==
    HookOutput("approve", [some |-> TRUE, value |-> <<"Command replacer hook error: ">> \o e],
               NoContext)

\* the output of allow_with_passthrough
PassthroughOutput == HookOutput("approve", NoMessage, NoContext)

\* the output of the Some arm of run()
ReplacedOutput(new_command, command) ==
    HookOutput("approve", NoMessage,
               [some |-> TRUE, modified_command |-> new_command, original_command |-> command])

\* the first error of run() for an input, if any: the three `?` before
\* Config::load
InputError(input) ==
    IF ~input.readable THEN Err("Failed to read from stdin")
    ELSE IF ~input.json THEN Err("Failed to parse JSON input")
    ELSE IF input.event_type = "PreToolUse" /\ ~input.data THEN Err("Failed to parse tool data")
    ELSE Ok

InitHook ==
    /\ engine = NoEngine
    /\ cache = EmptyCache
    /\ now = 0
    /\ last = NoCall
    /\ phase = "start"
    /\ threads = [t \in Threads |-> IdleThread]
    /\ lock = NoThread
    /\ stdout = <<>>

\* run() fails before the engine is built; main() prints the error output and
\* calls process::exit(0)
ReadFails ==
    /\ phase = "start"
    /\ \E input \in HookInputs :
          /\ InputError(input).kind = "Err"
          /\ last' = Call("run", <<>>, FALSE, InputError(input), <<>>, cache)
          /\ stdout' = Append(stdout, ErrorOutput(InputError(input).value))
    /\ phase' = "exited"
    /\ UNCHANGED <<engine, cache, now, threads, lock>>

\* an event that is not PreToolUse: return allow_with_passthrough()
Passthrough ==
    /\ phase = "start"
    /\ \E input \in HookInputs :
          /\ InputError(input).kind = "Ok"
          /\ input.event_type # "PreToolUse"
    /\ last' = Call("run", <<>>, FALSE, Ok, <<>>, cache)
    /\ stdout' = Append(stdout, PassthroughOutput)
    /\ phase' = "exited"
    /\ UNCHANGED <<engine, cache, now, threads, lock>>

\* a PreToolUse event with the data of a Bash command: run() goes on with
\* tool_data.command
ReadInput ==
    /\ phase = "start"
    /\ \E input \in HookInputs :
          /\ InputError(input).kind = "Ok"
          /\ input.event_type = "PreToolUse"
          /\ last' = Call("run", input.command, FALSE, Ok, <<>>, cache)
    /\ phase' = "input"
    /\ UNCHANGED <<engine, cache, now, threads, lock, stdout>>

\* Config::load().unwrap_or_default() and ReplacementEngine::new(config)
HookNew ==
    /\ phase = "input"
    /\ \E config \in Configs, git \in BOOLEAN :
          engine' = NewEngine(config, git)
    /\ last' = Call("new", last.command, FALSE, Ok, <<>>, cache)
    /\ phase' = "ready"
    /\ UNCHANGED <<cache, now, threads, lock, stdout>>

\* ReplacementEngine::new(config)? fails and main() prints the error output
HookNewFails ==
    /\ phase = "input"
    /\ last' = Call("new", last.command, FALSE, Err("current_dir"), <<>>, cache)
    /\ stdout' = Append(stdout, ErrorOutput(Err("current_dir").value))
    /\ phase' = "exited"
    /\ UNCHANGED <<engine, cache, now, threads, lock>>

\* match engine.replace_command(&tool_data.command)? and the output of each
\* arm; a panic unwinds through run() and main(), which print nothing
Replace ==
    /\ phase = "ready"
    /\ \E liveTarget \in BOOLEAN, liveAlt \in BOOLEAN :
          LET out == replace_command(engine, cache, now, last.command, liveTarget, liveAlt)
              result == out.result
          IN  /\ cache' = out.cache
              /\ last' = Call("replace_command", last.command, FALSE, result, out.calls, cache)
              /\ stdout' =
                    CASE result.kind = "Some" ->
                            Append(stdout, ReplacedOutput(result.value, last.command))
                      [] result.kind = "None" -> Append(stdout, PassthroughOutput)
                      [] result.kind = "Err" -> Append(stdout, ErrorOutput(result.value))
                      [] OTHER -> stdout
              /\ phase' = IF result.kind = "Panic" THEN "panicked" ELSE "exited"
    /\ UNCHANGED <<engine, now, threads, lock>>

NextHook == ReadFails \/ Passthrough \/ ReadInput \/ HookNew \/ HookNewFails \/ Replace

SpecHook == InitHook /\ [][NextHook]_vars

(***************************************************************************)
(* Properties                                                              *)
(***************************************************************************)
IsEval == last.op = "replace_command"
Settings == engine.config.settings
Rules == engine.config.replacements
LastParsed == last.parsed
LastCmd == LastParsed.parts[1]
LastArgs == Tail(LastParsed.parts)

AllPatternsValid ==
    \A i \in 1..Len(Settings.fallback_patterns) : Settings.fallback_patterns[i].valid

\* the indices of the configured deny patterns that match the raw command
Matching(command) ==
    {i \in 1..Len(Settings.fallback_patterns) :
        /\ Settings.fallback_patterns[i].valid
        /\ is_match(Settings.fallback_patterns[i], command)}

\* an invalid pattern stands in the list before every matching one
InvalidBeforeMatch(command) ==
    \E i \in 1..Len(Settings.fallback_patterns) :
        /\ ~Settings.fallback_patterns[i].valid
        /\ \A j \in Matching(command) : i < j

\* the first word of a translated command
FirstWord(t) ==
    LET spaces == {i \in 1..Len(t) : t[i] = SP}
    IN  IF spaces = {} THEN t
        ELSE SubSeq(t, 1, (CHOOSE i \in spaces : \A j \in spaces : i <= j) - 1)

\* the command has a rule, the rule is enabled, and the evaluation reached it
ReachedRule ==
    /\ IsEval
    /\ ~(Settings.semantic_analysis /\ (Matching(last.command) # {} \/ ~AllPatternsValid))
    /\ LastParsed.ok /\ LastParsed.parts # <<>>
    /\ LastCmd \in DOMAIN Rules
    /\ Rules[LastCmd].enabled

\* the translator's own safety predicate rejects the parsed arguments
PerToolRejects ==
    /\ LastParsed.ok /\ LastParsed.parts # <<>>
    /\ \/ LastCmd = Str("grep") /\ should_use_grep_fallback(engine, LastArgs)
       \/ LastCmd = Str("find") /\ should_use_find_fallback(engine, LastArgs)

---------------------------------------------------------------------------
\* C1 as stated: every evaluation of a raw command that matches a configured
\* deny pattern returns None, whatever the settings are (the patterns being valid).
C1_DenyAlwaysNone ==
    (IsEval /\ AllPatternsValid /\ Matching(last.command) # {}) => last.result = None

\* C1 amended: with semantic analysis enabled, a command that matches a deny
\* pattern is never translated: the result is None, or the invalid-pattern
\* error when an invalid pattern stands before the first matching one.
C1_DenySuppressesTranslation ==
    (IsEval /\ Settings.semantic_analysis /\ Matching(last.command) # {}) =>
        /\ last.result = (IF InvalidBeforeMatch(last.command)
                          THEN Err("Invalid fallback pattern") ELSE None)
        /\ last.calls = <<>>

\* a denied command that the cat translator alone would have translated
C1_Witness ==
    /\ IsEval /\ Settings.semantic_analysis
    /\ last.command = Cmd(<<"ls", "find", "-exec">>)
    /\ Rules[Str("ls")].enabled
    /\ last.result = None

\* C2 as stated: a command whose tokenization fails evaluates to None, never
\* to an error (the deny patterns being valid).
C2_ParseFailureIsNone ==
    (IsEval /\ AllPatternsValid /\ ~LastParsed.ok) => last.result = None

\* C3: a translation names a tool the Oracle reported available during this
\* evaluation, and an evaluation in which the Oracle reported every tool it
\* was asked about unavailable yields None, with fallback-on-missing on or off.
C3_TranslatedToolWasAvailable ==
    IsEval =>
        /\ last.result.kind = "Some" =>
              \E k \in DOMAIN last.calls :
                  /\ last.calls[k].tool = FirstWord(last.result.value)
                  /\ last.calls[k].result
        /\ (last.calls # <<>> /\ \A k \in DOMAIN last.calls : ~last.calls[k].result) =>
              last.result = None

\* the alternative was reported available after the target was not
C3_Witness ==
    /\ IsEval /\ last.result.kind = "Some"
    /\ Len(last.calls) = 2
    /\ ~last.calls[1].result /\ last.calls[2].result
    /\ FirstWord(last.result.value) = Str("exa")

\* the Oracle would answer "available" for exa from its cache
ExaCachedAvailable ==
    /\ Settings.cache_tool_checks
    /\ Str("exa") \in DOMAIN last.before
    /\ last.before[Str("exa")].available
    /\ now - last.before[Str("exa")].timestamp < Settings.tool_check_timeout

\* C4 as stated: when the target of ls is unavailable and exa is available,
\* exa is substituted, whatever the rule's fallback-on-missing flag is.
C4_AlternativeIgnoresFallbackFlag ==
    (ReachedRule /\ LastCmd = Str("ls") /\ ~last.calls[1].result /\ ExaCachedAvailable) =>
        /\ last.result.kind = "Some"
        /\ FirstWord(last.result.value) = Str("exa")

\* C4 amended: with the target unavailable, the alternative is consulted only
\* when fallback-on-missing is enabled, and if it is then available the same
\* translator runs with it as the target; with the flag disabled the result is
\* None and the alternative is not consulted.
C4_AlternativeNeedsFallbackFlag ==
    (ReachedRule /\ LastCmd = Str("ls") /\ ~last.calls[1].result) =>
        IF Rules[LastCmd].use_fallback
        THEN /\ Len(last.calls) = 2
             /\ last.calls[2].tool = Str("exa")
             /\ last.result =
                   (IF last.calls[2].result
                    THEN replace_ls(LastArgs, [Rules[LastCmd] EXCEPT !.replacement = Str("exa")])
                    ELSE None)
        ELSE Len(last.calls) = 1 /\ last.result = None

C4_Witness ==
    /\ ReachedRule /\ LastCmd = Str("ls") /\ Rules[LastCmd].use_fallback
    /\ ~last.calls[1].result
    /\ Len(last.calls) = 2 /\ last.calls[2].result
    /\ last.result = Some(Cmd(<<"exa", "-l", "d">>))

\* C5 as stated: an engine that evaluates a command to a result (semantic
\* analysis being on) has no invalid deny pattern, construction having aborted
\* otherwise.
C5_InvalidPatternAbortsConstruction ==
    (IsEval /\ Settings.semantic_analysis /\ last.result.kind \in {"None", "Some"}) =>
        AllPatternsValid

\* the entry the call found was younger than the TTL
FoundFresh(call) ==
    /\ call.before.present
    /\ call.at - call.before.timestamp < Settings.tool_check_timeout

\* C6: with caching enabled, a call that finds an entry younger than the TTL
\* returns the stored boolean and performs no live lookup.
C6_FreshEntryIsReturned ==
    \A k \in DOMAIN last.calls :
        (Settings.cache_tool_checks /\ FoundFresh(last.calls[k])) =>
            /\ last.calls[k].result = last.calls[k].before.available
            /\ last.calls[k].answers = <<>>

\* a direct call answered from an entry stored earlier, after the clock advanced
C6_Witness ==
    /\ last.op = "is_tool_available"
    /\ Settings.cache_tool_checks
    /\ FoundFresh(last.calls[1])
    /\ last.calls[1].at > last.calls[1].before.timestamp
    /\ last.calls[1].answers = <<>>
    /\ last.calls[1].result

\* C7: with caching enabled, a call that finds no entry, or one whose age has
\* reached the TTL, performs exactly one live lookup, returns its answer and
\* leaves it in the cache with the time of the call.
C7_StaleEntryIsRefreshed ==
    \A k \in DOMAIN last.calls :
        (Settings.cache_tool_checks /\ ~FoundFresh(last.calls[k])) =>
            /\ Len(last.calls[k].answers) = 1
            /\ last.calls[k].result = last.calls[k].answers[1]
            /\ last.calls[k].tool \in DOMAIN cache
            /\ cache[last.calls[k].tool] =
                  [available |-> last.calls[k].answers[1], timestamp |-> last.calls[k].at]

\* an expired entry that said "available" is replaced by the live answer "unavailable"
C7_Witness ==
    /\ Settings.cache_tool_checks
    /\ Settings.tool_check_timeout > 0
    /\ last.calls # <<>>
    /\ last.calls[1].before.present /\ last.calls[1].before.available
    /\ last.calls[1].at - last.calls[1].before.timestamp >= Settings.tool_check_timeout
    /\ last.calls[1].answers = <<FALSE>>
    /\ ~last.calls[1].result

\* C8 as stated: an evaluation of a command that the per-tool safety predicate
\* rejects returns None without any availability lookup and without changing
\* the cache (the deny patterns being valid).
C8_PerToolCheckBeforeOracle ==
    (IsEval /\ AllPatternsValid /\ PerToolRejects) =>
        /\ last.result = None
        /\ last.calls = <<>>
        /\ cache = last.before

\* C8 amended: only the global deny check comes before the Oracle: a command
\* it suppresses returns None with no lookup and no change of the cache.  The
\* per-tool predicate runs inside the translator, after the target's lookup: a
\* command it rejects is never translated, and when the evaluation reaches its
\* enabled rule it returns None after exactly one availability lookup.
C8_OnlyDenyCheckBeforeOracle ==
    /\ (IsEval /\ Settings.semantic_analysis /\ Matching(last.command) # {}
           /\ ~InvalidBeforeMatch(last.command)) =>
          (last.result = None /\ last.calls = <<>> /\ cache = last.before)
    /\ (IsEval /\ PerToolRejects) => last.result.kind # "Some"
    /\ (ReachedRule /\ PerToolRejects) =>
          /\ last.result = None
          /\ Len(last.calls) = 1
          /\ last.calls[1].tool = Rules[LastCmd].replacement

\* find . -delete: the lookup of fd was made and stored before the translator declined
C8_Witness ==
    /\ ReachedRule /\ PerToolRejects
    /\ last.command = Cmd(<<"find", ".", "-delete">>)
    /\ last.result = None
    /\ Len(last.calls) = 1 /\ last.calls[1].result
    /\ cache # last.before

\* C9 as stated: a command that tokenizes to nothing, or whose first token has
\* no rule or a disabled rule, evaluates to None.
C9_NoRuleIsNone ==
    (IsEval /\ LastParsed.ok
        /\ (LastParsed.parts = <<>> \/ LastCmd \notin DOMAIN Rules \/ ~Rules[LastCmd].enabled)) =>
        last.result = None

\* C10 as stated: replace_command applied to a translation it returned yields None.
C10_RetranslationIsNone ==
    (IsEval /\ last.fedback) => last.result = None


---------------------------------------------------------------------------
\* Helpers for the translator properties

HasArg(args, S) == \E i \in 1..Len(args) : args[i] \in StrSet(S)
OnlyArgs(args, S) == \A i \in 1..Len(args) : args[i] \in StrSet(S)

\* the evaluation of a command whose first token is tool
Evaluated(tool) ==
    /\ IsEval
    /\ LET parsed == LastParsed
       IN  parsed.ok /\ parsed.parts # <<>> /\ parsed.parts[1] = Str(tool)

\* the grep flags that take the next argument as their value
GrepValueFlags ==
    StrSet({"-A", "--after-context", "-B", "--before-context", "-C", "--context",
            "--include", "--exclude"})

\* the positions of args that replace_grep reads as an argument of its own,
\* the others being read as the value of the flag before them
RECURSIVE GrepVisited(_, _)
GrepVisited(args, i) ==
    IF i > Len(args) THEN {}
    ELSE {i} \cup GrepVisited(args, IF args[i] \in GrepValueFlags THEN i + 2 ELSE i + 1)

ExtendedRegexFlags == StrSet({"-E", "--extended-regexp"})

\* C11 as stated: a grep command with -P/--perl-regexp or -z/--null-data among
\* its arguments is never translated; one with -E/--extended-regexp or
\* -a/--text among its arguments is never translated in compatibility mode,
\* and these two flags force nothing when compatibility mode is off.
C11_RegexFlavourFlagsDecline ==
    LET args == LastArgs IN
    Evaluated("grep") =>
        /\ HasArg(args, {"-P", "--perl-regexp", "-z", "--null-data"}) => last.result = None
        /\ engine.compatibility_mode
              /\ HasArg(args, {"-a", "--text", "-E", "--extended-regexp"})
              => last.result = None
        /\ ~engine.compatibility_mode
              /\ OnlyArgs(args, {"-E", "--extended-regexp", "-a", "--text", "pat"})
              => last.result.kind = "Some"

\* C11 amended: as above, but -E/--extended-regexp forces None in compatibility
\* mode only where replace_grep reads it as a flag, not where it stands as the
\* value of a preceding context or include/exclude flag.
C11_RegexFlavourFlagsDeclineWhereRead ==
    LET args == LastArgs IN
    Evaluated("grep") =>
        /\ HasArg(args, {"-P", "--perl-regexp", "-z", "--null-data"}) => last.result = None
        /\ engine.compatibility_mode /\ HasArg(args, {"-a", "--text"}) => last.result = None
        /\ engine.compatibility_mode
              /\ (\E i \in GrepVisited(args, 1) : args[i] \in ExtendedRegexFlags)
              => last.result = None
        /\ ~engine.compatibility_mode
              /\ OnlyArgs(args, {"-E", "--extended-regexp", "-a", "--text", "pat"})
              => last.result.kind = "Some"

\* a grep command of -E and a pattern only is declined in compatibility mode
C11_Witness ==
    /\ Evaluated("grep")
    /\ engine.compatibility_mode
    /\ LastArgs = <<Str("-E"), Str("pat")>>
    /\ last.result = None

\* C12: a find command with an action clause, an unsupported predicate, a
\* boolean operator, or a -type followed by a value other than f, d and l
\* among its arguments is never translated.
C12_UnsafeFindDeclines ==
    LET args == LastArgs IN
    /\ Evaluated("find")
    /\ \/ HasArg(args, {"-exec", "-execdir", "-ok", "-okdir", "-delete", "-print0",
                        "-size", "-mtime", "-ctime", "-atime", "-perm",
                        "-user", "-group", "-uid", "-gid",
                        "-and", "-or", "-not", "!", "(", ")"})
       \/ \E i \in 1..(Len(args) - 1) :
             /\ args[i] = Str("-type")
             /\ args[i + 1] \notin StrSet({"f", "d", "l"})
    => last.result = None

\* find with -delete standing as the value of -maxdepth is declined by the
\* translator itself, the deny patterns being off
C12_Witness ==
    /\ Evaluated("find")
    /\ ~Settings.semantic_analysis
    /\ LastArgs = <<Str("."), Str("-maxdepth"), Str("-delete")>>
    /\ Len(last.calls) = 1 /\ last.calls[1].result
    /\ last.result = None

\* the words of a command line, split at its spaces
RECURSIVE Words(_)
Words(t) ==
    LET spaces == {i \in 1..Len(t) : t[i] = SP}
    IN  IF spaces = {} THEN <<t>>
        ELSE LET k == CHOOSE i \in spaces : \A j \in spaces : i <= j
             IN  <<SubSeq(t, 1, k - 1)>> \o Words(SubSeq(t, k + 1, Len(t)))

\* the find flags that take the next argument as their value
FindValueFlags ==
    StrSet({"-name", "-iname", "-path", "-ipath", "-type", "-maxdepth", "-mindepth"})

\* the positions of args that replace_find reads as an argument of its own
RECURSIVE FindVisited(_, _)
FindVisited(args, i) ==
    IF i > Len(args) THEN {}
    ELSE {i} \cup FindVisited(args, IF args[i] \in FindValueFlags THEN i + 2 ELSE i + 1)

\* the elements of args at the positions of idx, in order
Pick(args, idx) ==
    [k \in 1..Cardinality(idx) |->
        args[CHOOSE i \in idx : Cardinality({j \in idx : j <= i}) = k]]

\* p without one pair of surrounding quote characters
Unquoted(p) ==
    IF Len(p) >= 2 /\ p[1] = p[Len(p)] /\ p[1] \in {SQ, DQ}
    THEN SubSeq(p, 2, Len(p) - 1)
    ELSE p

GrepRule == Rules[Str("grep")]

\* the two flags prepended inside a version-controlled directory unless an
\* ignore-override flag is among the arguments
VcsFlags(args) ==
    IF engine.is_git_repo
       /\ ~HasArg(args, {"--no-ignore", "--hidden", "-u", "--unrestricted"})
    THEN <<Str("--no-ignore"), Str("--hidden")>>
    ELSE <<>>

\* the flags replace_grep matches by name before it looks at the rule, and
\* emits under another name or not at all
GrepRewritten(arg) ==
    \/ arg \in StrSet({"-E", "--extended-regexp", "-P", "--perl-regexp",
                       "-F", "-o", "-c", "-l", "-L",
                       "--after-context", "--before-context", "--context",
                       "--include", "--exclude"})
    \/ StartsWith(arg, Str("--include="))
    \/ StartsWith(arg, Str("--exclude="))

GlobAt(args, i) ==
    LET arg == args[i] IN
    IF StartsWith(arg, Str("--include=")) THEN <<Unquoted(SubSeq(arg, 11, Len(arg)))>>
    ELSE IF StartsWith(arg, Str("--exclude=")) THEN <<Str("!") \o Unquoted(SubSeq(arg, 11, Len(arg)))>>
    ELSE IF arg = Str("--include") /\ i < Len(args) THEN <<Unquoted(args[i + 1])>>
    ELSE IF arg = Str("--exclude") /\ i < Len(args) THEN <<Str("!") \o Unquoted(args[i + 1])>>
    ELSE <<>>

\* the --glob values of the positions idx of args, in their order
RECURSIVE Globs(_, _, _)
Globs(args, i, idx) ==
    IF i > Len(args) THEN <<>>
    ELSE (IF i \in idx THEN GlobAt(args, i) ELSE <<>>) \o Globs(args, i + 1, idx)

\* the words that follow a --glob word in w, in their order
RECURSIVE GlobValues(_, _)
GlobValues(w, k) ==
    IF k >= Len(w) THEN <<>>
    ELSE IF w[k] = Str("--glob") THEN <<w[k + 1]>> \o GlobValues(w, k + 2)
    ELSE GlobValues(w, k + 1)

\* C15 as stated: in a grep translation every --include=PAT or --include PAT
\* has become --glob PAT and every --exclude=PAT or --exclude PAT has become
\* --glob !PAT, PAT without its surrounding quotes; the --glob values of the
\* translation are exactly these, in the order of the arguments.
C15_IncludeExcludeBecomeGlobs ==
    Evaluated("grep") /\ last.result.kind = "Some" =>
        LET args == LastArgs IN
        GlobValues(Words(last.result.value), 1) = Globs(args, 1, 1..Len(args))

\* C15 amended: the same for the include/exclude arguments that replace_grep
\* reads as arguments of their own, not as the value of the flag before them.
C15_IncludeExcludeBecomeGlobsWhereRead ==
    Evaluated("grep") /\ last.result.kind = "Some" =>
        LET args == LastArgs IN
        GlobValues(Words(last.result.value), 1) = Globs(args, 1, GrepVisited(args, 1))

\* a quoted one-token include and a quoted two-token exclude in one command
C15_Witness ==
    /\ Evaluated("grep")
    /\ ~engine.is_git_repo
    /\ LastArgs = <<Str("--include='*.rs'"), Str("--exclude"), Str("'*.rs'"), Str("pat")>>
    /\ last.result = Some(Cmd(<<"rg", "--glob", "*.rs", "--glob", "!*.rs", "pat">>))

\* the ways to read e as s/PATTERN/REPLACEMENT/ followed by flags g and i,
\* PATTERN non-empty and neither part holding a slash: the pairs
\* <<PATTERN, REPLACEMENT>>, of which there is at most one
SedForms(e) ==
    { <<SubSeq(e, 3, a - 1), SubSeq(e, a + 1, b - 1)>> :
        <<a, b>> \in { p \in (4..Len(e)) \X (5..Len(e)) :
            /\ p[1] < p[2]
            /\ e[1] = "s" /\ e[2] = "/" /\ e[p[1]] = "/" /\ e[p[2]] = "/"
            /\ \A k \in (3..(p[1] - 1)) \cup ((p[1] + 1)..(p[2] - 1)) : e[k] # "/"
            /\ \A k \in (p[2] + 1)..Len(e) : e[k] \in {"g", "i"} } }

\* C16: sed is translated exactly when its first argument reads as
\* s/PATTERN/REPLACEMENT/ with flags g and i only; the translation is then the
\* target tool, PATTERN, REPLACEMENT and the remaining arguments unchanged and
\* in order, without the flags; every other command yields None.
C16_SedSimpleSubstitutionOnly ==
    Evaluated("sed") =>
        LET args == LastArgs
            forms == IF args = <<>> THEN {} ELSE SedForms(args[1])
        IN  IF forms = {} THEN last.result = None
            ELSE \A f \in forms :
                    last.result = Some(Join(<<Rules[Str("sed")].replacement, f[1], f[2]>>
                                            \o Tail(args), <<SP>>))

\* "sed s/ab/c/gi f s/a/b/" gives "sd ab c f s/a/b/"
C16_Witness ==
    /\ Evaluated("sed")
    /\ LastArgs = <<Str("s/ab/c/gi"), Str("f"), Str("s/a/b/")>>
    /\ last.result = Some(Cmd(<<"sd", "ab", "c", "f", "s/a/b/">>))

\* the flags that an arm of replace_grep matches by name, before the rule's
\* preserve set is consulted
GrepNamed(arg) == GrepRewritten(arg) \/ arg \in StrSet({"-A", "-B", "-C"})

ContextOrGlobFlag(arg) ==
    \/ arg \in DOMAIN GrepContext
    \/ arg \in StrSet({"--include", "--exclude"})
    \/ StartsWith(arg, Str("--include="))
    \/ StartsWith(arg, Str("--exclude="))

\* the words of the translation
ResultWords == {Words(last.result.value)[k] : k \in 1..Len(Words(last.result.value))}

MappedAt(tool, args) ==
    {i \in 1..Len(args) :
        /\ IsFlag(args[i])
        /\ args[i] \in DOMAIN Rules[Str(tool)].flag_mappings
        /\ tool = "grep" =>
              /\ i \in GrepVisited(args, 1)
              /\ ~GrepNamed(args[i])
              /\ args[i] \notin GrepRule.preserve_flags}

\* C18 for one translator: the flags mapped to the empty string contribute
\* nothing, so the translation is that of the command without them; a flag
\* mapped to a non-empty target is replaced by that target.
MappingHonoured(tool) ==
    Evaluated(tool) /\ last.result.kind = "Some" =>
        LET args == LastArgs
            rc == Rules[Str(tool)]
            mapped == MappedAt(tool, args)
            dropped == {i \in mapped : rc.flag_mappings[args[i]] = <<>>}
            words == ResultWords
        IN  /\ last.result = apply_replacement(engine, Str(tool),
                                               Pick(args, (1..Len(args)) \ dropped), rc)
            /\ \A i \in mapped \ dropped : rc.flag_mappings[args[i]] \in words

\* C18: in the translators that apply the rule's flag mapping, grep and cat, a
\* flag mapped to the empty string contributes no token to the translation and
\* a flag mapped to a non-empty target is replaced by that target.
C18_EmptyMappingDropsFlag == MappingHonoured("grep") /\ MappingHonoured("cat")


\* the grep arguments in which the complex-regex heuristic finds a construct
ComplexPatternArgs(args) ==
    {i \in 1..Len(args) :
        /\ ~IsFlag(args[i])
        /\ \E m \in StrSet({"\\<", "\\>", "\\b", "(?", "\\x", "\\u"}) : Contains(args[i], m)}

\* C20: with compatibility mode on, a grep command with a non-flag argument
\* holding \<, \>, \b, (?, \x or \u is never translated; with compatibility
\* mode off such an argument forces nothing: a command of patterns, file names
\* and -n is translated verbatim whatever its patterns hold.
C20_ComplexRegexOnlyInCompatibilityMode ==
    Evaluated("grep") =>
        LET args == LastArgs IN
        /\ engine.compatibility_mode /\ ComplexPatternArgs(args) # {}
           => last.result = None
        /\ (/\ ~engine.compatibility_mode
            /\ args # <<>>
            /\ \A i \in 1..Len(args) : IsFlag(args[i]) => args[i] = Str("-n"))
           => last.result = Some(Join(<<GrepRule.replacement>> \o VcsFlags(args) \o args, <<SP>>))

\* with compatibility mode off "grep -n '(?i)a' pat" is translated
C20_Witness ==
    /\ Evaluated("grep")
    /\ ~engine.compatibility_mode
    /\ ~engine.is_git_repo
    /\ LastArgs = <<Str("-n"), Str("(?i)a"), Str("pat")>>
    /\ ComplexPatternArgs(LastArgs) = {2}
    /\ last.result = Some(Cmd(<<"rg", "-n", "(?i)a", "pat">>))

\* thread t is between lock() and the drop of the guard
InCriticalSection(t) == threads[t].pc \in {"get", "which", "insert"}

\* no two calls are in the critical section together
MutualExclusion ==
    \A t \in Threads, u \in Threads :
        InCriticalSection(t) /\ InCriticalSection(u) => t = u

\* the mutex is held exactly by the thread in the critical section: a thread
\* about to call lock() does not hold it, and the holder is never blocked
HolderRuns ==
    /\ lock \in Threads \cup {NoThread}
    /\ \A t \in Threads : InCriticalSection(t) <=> lock = t

\* within the TTL window that a probe opens, from the timestamp it stores to
\* that plus the TTL, no other call for the tool probes and every call
\* returns the boolean the probe stored
OneProbePerWindow ==
    \A p \in Threads, c \in Threads :
        /\ p # c
        /\ threads[p].pc = "done" /\ threads[c].pc = "done"
        /\ threads[p].tool = threads[c].tool
        /\ threads[p].probed
        /\ threads[p].now <= threads[c].now
        /\ threads[c].end < threads[p].now + engine.config.settings.tool_check_timeout
        => ~threads[c].probed /\ threads[c].result = threads[p].result

\* C19: under every interleaving of concurrent is_tool_available calls with
\* caching on, the check, the probe and the insert of a call run under the
\* cache lock: no two calls are in the critical section together, no call
\* holds the lock when it asks for it or blocks while holding it, and the
\* callers of one tool within one TTL window cause one probe at most and get
\* the same boolean.
C19_ProbeUnderLock == MutualExclusion /\ HolderRuns /\ OneProbePerWindow

\* two calls for one tool raced: one probed with the lock held while the other
\* was blocked in lock(), and the other then returned the stored boolean
\* without probing
C19_Witness ==
    \E p \in Threads, c \in Threads :
        /\ p # c
        /\ threads[p].pc = "done" /\ threads[c].pc = "done"
        /\ threads[p].tool = threads[c].tool
        /\ threads[p].probed /\ ~threads[c].probed
        /\ threads[c].waited
        /\ threads[p].now <= threads[c].now
        /\ threads[c].end < threads[p].now + engine.config.settings.tool_check_timeout
        /\ threads[c].result = threads[p].result
        /\ threads[p].result

IsWord(x) == x # <<>>

\* what the translator of tool is to emit for args: an operand as it is, a
\* flag of the preserve set as it is, for cat a mapped flag as its target, and
\* nothing for any other flag
KeptArgs(tool, args) ==
    LET rc == Rules[Str(tool)]
        kept(arg) ==
            IF ~IsFlag(arg) THEN arg
            ELSE IF tool = "cat" /\ arg \in DOMAIN rc.flag_mappings THEN rc.flag_mappings[arg]
            ELSE IF arg \in rc.preserve_flags THEN arg
            ELSE <<>>
    IN  SelectSeq([i \in 1..Len(args) |-> kept(args[i])], IsWord)

\* C21 for one translator
NoFallbackPath(tool) ==
    Evaluated(tool) =>
        /\ last.result.kind = "Some"
        /\ SelectSeq(Words(last.result.value), IsWord)
              = <<Rules[Str(tool)].replacement>>
                \o (IF tool = "cat" THEN <<Str("--style=plain")>> ELSE <<>>)
                \o KeptArgs(tool, LastArgs)

\* C21: cat, ls and ps are translated for every argument list; the translation
\* keeps every operand in its place, keeps a flag only if the rule preserves it
\* (or, for cat, maps it) and drops every other flag; cat's arguments begin with
\* --style=plain.
C21_CatLsPsAlwaysTranslate ==
    NoFallbackPath("cat") /\ NoFallbackPath("ls") /\ NoFallbackPath("ps")

\* "ls -l -Z d" loses the unknown -Z and keeps the rest
C21_Witness ==
    /\ Evaluated("ls")
    /\ LastArgs = <<Str("-l"), Str("-Z"), Str("d")>>
    /\ last.result = Some(Cmd(<<"eza", "-l", "d">>))

\* the tokens that the translator of cmd pushes for args before it joins them
ProducedTokens(cmd, args) ==
    LET rc == Rules[cmd] IN
    CASE cmd = Str("grep") ->
            GrepLoop(engine, rc, args, 1,
                     IF engine.is_git_repo /\ ~has_ignore_flags(args)
                     THEN <<Str("--no-ignore"), Str("--hidden")>> ELSE <<>>).args
      [] cmd = Str("find") ->
            FindLoop(rc, args, 1, <<Str("-H"), Str("-I")>>, NoPattern, <<>>).args
      [] cmd = Str("cat") -> CatLoop(rc, args, 1, <<Str("--style=plain")>>)
      [] cmd = Str("sed") ->
            <<parse_sed_expression(args[1]).pattern, parse_sed_expression(args[1]).replacement>>
            \o Tail(args)
      [] OTHER -> KeepPreserved(rc, args, 1, <<>>)

\* C22: splitting a translation into shell words gives the target tool
\* followed by exactly the tokens the translator produced.
C22_TranslationKeepsTokens ==
    (IsEval /\ last.result.kind = "Some") =>
        LET parsed == LastParsed
            cmd == parsed.parts[1]
        IN  parse_command(last.result.value)
              = Parsed(<<Rules[cmd].replacement>> \o ProducedTokens(cmd, Tail(parsed.parts)))

\* C23: in a find translation no expression element is lost: every argument
\* that starts with '-' has been translated together with its value or is a
\* preserved flag of the translation, and every pattern that a -name or -iname
\* gives is a word of the translation.
C23_FindLosesNothing ==
    Evaluated("find") /\ last.result.kind = "Some" =>
        LET args == LastArgs
            words == ResultWords
            rc == Rules[Str("find")]
        IN  \A i \in FindVisited(args, 1) :
                /\ IsFlag(args[i]) =>
                      \/ args[i] \in FindValueFlags /\ i < Len(args)
                      \/ args[i] \in rc.preserve_flags /\ args[i] \in words
                /\ (args[i] \in StrSet({"-name", "-iname"}) /\ i < Len(args)) =>
                      convert_glob_to_regex(args[i + 1]).value \in words

\* the hook process has ended: main() returned, called process::exit(0), or
\* was unwound by a panic
HookEnded == phase \in {"exited", "panicked"}

\* C24: every run of the hook process emits exactly one output, whose
\* decision is approve, whatever the input (an unreadable or invalid input,
\* an event that is not PreToolUse, a failing or declining or translating
\* replace_command); block is never emitted, nothing is emitted twice, and
\* the output carries a modified_command exactly when replace_command
\* returned Some, with that command and the original one
C24_OneApproveOutputPerRun ==
    /\ Len(stdout) <= 1
    /\ \A i \in 1..Len(stdout) : stdout[i].decision = "approve"
    /\ HookEnded =>
          /\ Len(stdout) = 1
          /\ stdout[1].context.some <=>
                (last.op = "replace_command" /\ last.result.kind = "Some")
          /\ stdout[1].context.some =>
                /\ stdout[1].context.modified_command = last.result.value
                /\ stdout[1].context.original_command = last.command
====
